---- MODULE Spec2Model ----
(***************************************************************************)
(* State-machine model of imagegen-rs: the generator thread (single        *)
(* threaded and worker-pool paths of InnerGenerator::generate), its        *)
(* workers, the progress supervisor and the progressors, sharing           *)
(* CommonData under the two-phase barrier protocol.                        *)
(*                                                                         *)
(* A Color (4 lanes of f64 in the source) is modelled as one quantised     *)
(* channel level 0..MaxColor; fitness is the squared difference.  Every    *)
(* draw from the RNG is a nondeterministic choice.                         *)
(***************************************************************************)
EXTENDS Integers, Sequences, FiniteSets, TLC

\* ------------------------------------------------------------------ bounds
\* Largest -x and -y value.
MaxDim == 2
\* Largest number of pixels (dimx * dimy) of a modelled image.
MaxSize == 4
\* Largest -e/--seeds value.
MaxSeeds == 2
\* Colour channel levels are 0..MaxColor.
MaxColor == 1
\* Main-loop iterations a run is followed for.
MaxSteps == 21
\* Largest height and width of a BitMap exercised on its own, and the number
\* of set calls it is followed for.
MaxRows == 2
MaxCols == 9
MaxSets == 2
\* Pixel coordinates handed to Geometry::canonicalize are -MaxCoord..MaxCoord.
MaxCoord == 5
\* Largest number of vector sets of a VectorSetGroup and largest chance of one.
MaxVectorSets == 3
MaxChance == 3
\* Largest number of command-line parameters handed to Getopt::parse.
MaxParams == 2
\* Largest number of parameters handed to the generator's option handling.
MaxOffsetParams == 3
\* Largest seed count of a place_seeds_common call followed try by try.
MaxSeedCount == 3
MaxColorParams == 3
MaxEdges == 11
MaxPool == 5

\* ------------------------------------------------------ program constants
\* Color::default(), the colour of every cell of the fresh image.
ZeroColor == 0
\* place_seeds_common gives up on random tries at this many failures.
SeedFailureLimit == 4

\* Option<T>
None == [some |-> FALSE]
Some(v) == [some |-> TRUE, value |-> v]

Colors == 0..MaxColor

\* ------------------------------------------------------------ threads
GenId == <<"gen", 0>>
SupId == <<"sup", 0>>
WorkerId(i) == <<"worker", i>>
ProgId(j) == <<"prog", j>>

\* ------------------------------------------------------------ offsets
Offset(dx, dy) == [dx |-> dx, dy |-> dy]
Pixel(x, y) == [x |-> x, y |-> y]

ORTHOGONAL_OFFSETS == <<Offset(-1, 0), Offset(0, -1), Offset(0, 1), Offset(1, 0)>>

\* -O 1,0 -O 0,1 and -O -1,0 -O 1,0 (literal offsets).
OffsetChoices ==
    { <<Offset(1, 0), Offset(0, 1)>>, <<Offset(-1, 0), Offset(1, 0)>> }

\* Progressor sets handed to progress::handle_opts.
ProgressorChoices ==
    { <<"text">>, <<"file">>, <<"sdl">>, <<"file", "sdl">>, <<"text", "text">> }

\* -I/--progressinterval values.
IntervalChoices == {0, 1}

WorkerChoices == {1, 2}

ColorCountChoices == {1, 2}

\* No --maxfitness, or --maxfitness 0.
MaxFitnessChoices == {[some |-> FALSE], [some |-> TRUE, value |-> 0]}

VARIABLES
    cfg,                \* the immutable configuration
    image,              \* CommonLockedData.image
    placed_pixels,      \* CommonLockedData.placed_pixels
    edges,              \* CommonLockedData.edges (the frontier)
    lock_writer,        \* holders of the RwLock's write guard (at most one)
    lock_readers,       \* holders of read guards
    finished,           \* CommonData.finished
    pixels_placed,      \* CommonData.pixels_placed
    pixels_generated,   \* CommonData.pixels_generated
    barrier_generation, \* parity of the outer barrier's generation
    gpc,                \* generator thread position
    offsets,            \* InnerGenerator.offsets (shuffled every step)
    seed_locations,     \* result of place_seeds_common not yet in edges
    colors,             \* candidate colours of the step
    best_places,        \* per-candidate best of the step
    idx,                \* loop index of the generator's current for loop
    gen_finished,       \* the generator has stored finished (line 239/419)
    revalidated,        \* the frontier's last change was validate_inner_edges
    steps,              \* iterations of the main loop that passed the finished test
    step_start,         \* the locked data as the current iteration found it
    exact_match,        \* under max_fitness, a candidate had fitness 0 so far
    wpc,                \* worker positions
    w_colors,           \* each worker's received colours
    w_best,             \* each worker's best_places
    colors_ch,          \* broadcast channel, one queue per receiver
    colors_tx_open,     \* colors_tx not yet dropped
    edges_ch,           \* per-worker edge range channels
    best_ch,            \* workers -> supervisor channel
    spc,                \* progress supervisor position
    sched,              \* task that owns the progress thread (run_alone)
    inner_waiting,      \* tasks blocked on the inner barrier
    ppc,                \* progressor positions
    step_count,         \* each progressor's step_count
    quit_requested,     \* each SDL progressor's quit_requested
    final_outputs,      \* each progressor's callback/render calls made with finished set
    bitmap,             \* a bitmap::BitMap on its own (data, stride, width, height)
    geometry,           \* an NSWrappingGeometry on its own
    group,              \* a VectorSetGroup on its own
    getopt,             \* a GetoptIter on its own (parser, params, position)
    seeding,            \* a place_seeds_common call on its own, try by try
    split,              \* the edge ranges of one step's split on their own
    call                \* the last library call made on its own, with its result

lockedVars == <<image, placed_pixels, edges>>
lockVars == <<lock_writer, lock_readers>>
atomicVars == <<finished, pixels_placed, pixels_generated, gen_finished>>
genVars == <<gpc, offsets, seed_locations, colors, best_places, idx, revalidated,
             steps, step_start, exact_match>>
workerVars == <<wpc, w_colors, w_best>>
chanVars == <<colors_ch, colors_tx_open, edges_ch, best_ch>>
progVars == <<spc, sched, inner_waiting, ppc, step_count, quit_requested,
             final_outputs>>

\* State of the libraries exercised on their own (bitmap, getopt, geometry,
\* colour sampling); a generation run leaves it alone.
libVars == <<bitmap, geometry, group, getopt, seeding, split, call>>

runVars == <<cfg, image, placed_pixels, edges, lock_writer, lock_readers,
          finished, pixels_placed, pixels_generated, barrier_generation,
          gpc, offsets, seed_locations, colors, best_places, idx,
          gen_finished, revalidated, steps, step_start, exact_match,
          wpc, w_colors, w_best, colors_ch, colors_tx_open,
          edges_ch, best_ch, spc, sched, inner_waiting, ppc, step_count,
          quit_requested, final_outputs>>

vars == <<libVars, runVars>>

\* What a call on one library object leaves alone.
bitmapRest == <<geometry, group, getopt, seeding, split, runVars>>
geometryRest == <<bitmap, group, getopt, seeding, split, runVars>>
groupRest == <<bitmap, geometry, getopt, seeding, split, runVars>>
getoptRest == <<bitmap, geometry, group, seeding, split, runVars>>
colorRest == <<bitmap, geometry, group, seeding, split, runVars>>
seedingRest == <<bitmap, geometry, group, getopt, split, call, runVars>>
splitRest == <<bitmap, geometry, group, getopt, seeding, call, runVars>>

\* ------------------------------------------------------ configuration
dimx == cfg.dimx
dimy == cfg.dimy
size == cfg.dimx * cfg.dimy
seeds == cfg.seeds
colorcount == cfg.colorcount
workers == cfg.workers
maxfitness == cfg.maxfitness
progressors == cfg.progressors
progress_interval == cfg.progress_interval

Cells == {<<y, x>> : y \in 0..(dimy - 1), x \in 0..(dimx - 1)}
Workers == IF workers > 1 THEN 1..workers ELSE {}
Progs == 1..Len(progressors)
\* Progressor::run_alone (one progressor) or ProgressSupervisor::run_alone.
SingleMode == Len(progressors) = 1
\* An inner barrier built for one party more than will ever arrive.
InnerParties_OneTooMany == Len(progressors) + 2
InnerParties == Len(progressors) + 1

\* ------------------------------------------------------ pure functions
\* Squared distance between an existing colour and a candidate.
fitness(color, new_color) == (color - new_color) * (color - new_color)

Best(pixel, fit) == Some([pixel |-> pixel, fitness |-> fit])

\* The match of the scan's inner loop: keep the current best only when its
\* fitness is strictly less than the new one.
UpdateBest(current_best, pixel, fit) ==
    IF current_best.some /\ current_best.value.fitness < fit
    THEN current_best
    ELSE Best(pixel, fit)

\* for edge in lo..hi { ... } over edges[edge] (0-based, half open).
RECURSIVE ScanEdges(_, _, _, _, _, _)
ScanEdges(img, edg, cols, lo, hi, best) ==
    IF lo >= hi THEN best
    ELSE LET pixel == edg[lo + 1]
             color == img[<<pixel.y, pixel.x>>]
             next == [j \in 1..Len(cols) |->
                        UpdateBest(best[j], pixel, fitness(color, cols[j]))]
         IN ScanEdges(img, edg, cols, lo + 1, hi, next)

NoBest(n) == [j \in 1..n |-> None]

\* The single-threaded scan of the whole frontier.
ScanAll(img, edg, cols) == ScanEdges(img, edg, cols, 0, Len(edg), NoBest(Len(cols)))

\* The supervisor's merge of one worker entry into its own.
ReduceOne(best, worker, maxfit) ==
    IF ~worker.some THEN best
    ELSE IF ~best.some
         THEN IF ~maxfit.some THEN worker
              ELSE IF worker.value.fitness < maxfit.value THEN worker ELSE best
         ELSE IF worker.value.fitness < best.value.fitness THEN worker ELSE best

ReduceBest(best, recvd, maxfit) ==
    [j \in 1..Len(best) |-> ReduceOne(best[j], recvd[j], maxfit)]

\* A split that gives every worker one step, the last one too.
EdgeRange_EvenSteps(w, n, edgecount) ==
    LET step == edgecount \div n
    IN [lo |-> w * step, hi |-> (w + 1) * step]

\* The index range sent to worker w (0-based) of n for edgecount edges.
EdgeRange(w, n, edgecount) ==
    LET step == edgecount \div n
    IN IF w = n - 1
       THEN [lo |-> w * step, hi |-> edgecount]
       ELSE [lo |-> w * step, hi |-> (w + 1) * step]

InBounds(x, y) == ~(y < 0 \/ y >= dimy) /\ ~(x < 0 \/ x >= dimx)

\* Index of the first offset whose target is in bounds and unplaced, or 0.
RECURSIVE FirstOpenOffset(_, _, _, _)
FirstOpenOffset(pixel, offs, mask, k) ==
    IF k > Len(offs) THEN 0
    ELSE LET y == pixel.y + offs[k].dy
             x == pixel.x + offs[k].dx
         IN IF InBounds(x, y) /\ ~mask[<<y, x>>]
            THEN k
            ELSE FirstOpenOffset(pixel, offs, mask, k + 1)

\* A placement that pushes the frontier pixel it grew from, not the new one.
place_pixel_inner_PushesOrigin(pixel, color, img, edg, mask, offs) ==
    LET k == FirstOpenOffset(pixel, offs, mask, 1)
    IN IF k = 0
       THEN [ok |-> FALSE, image |-> img, edges |-> edg, placed_pixels |-> mask]
       ELSE LET y == pixel.y + offs[k].dy
                x == pixel.x + offs[k].dx
            IN [ok |-> TRUE,
                image |-> [img EXCEPT ![<<y, x>>] = color],
                edges |-> Append(edg, pixel),
                placed_pixels |-> [mask EXCEPT ![<<y, x>>] = TRUE]]

\* A placement that also paints the frontier pixel it grew from.
place_pixel_inner_PaintsOrigin(pixel, color, img, edg, mask, offs) ==
    LET k == FirstOpenOffset(pixel, offs, mask, 1)
    IN IF k = 0
       THEN [ok |-> FALSE, image |-> img, edges |-> edg, placed_pixels |-> mask]
       ELSE LET y == pixel.y + offs[k].dy
                x == pixel.x + offs[k].dx
            IN [ok |-> TRUE,
                image |-> [img EXCEPT ![<<y, x>>] = color,
                                      ![<<pixel.y, pixel.x>>] = color],
                edges |-> Append(edg, Pixel(x, y)),
                placed_pixels |-> [mask EXCEPT ![<<y, x>>] = TRUE]]

\* A placement at the last open offset instead of the first.
place_pixel_inner_LastOffset(pixel, color, img, edg, mask, offs) ==
    LET open == {k \in 1..Len(offs) :
                   /\ InBounds(pixel.x + offs[k].dx, pixel.y + offs[k].dy)
                   /\ ~mask[<<pixel.y + offs[k].dy, pixel.x + offs[k].dx>>]}
    IN IF open = {}
       THEN [ok |-> FALSE, image |-> img, edges |-> edg, placed_pixels |-> mask]
       ELSE LET k == CHOOSE k \in open : \A j \in open : j <= k
                y == pixel.y + offs[k].dy
                x == pixel.x + offs[k].dx
            IN [ok |-> TRUE,
                image |-> [img EXCEPT ![<<y, x>>] = color],
                edges |-> Append(edg, Pixel(x, y)),
                placed_pixels |-> [mask EXCEPT ![<<y, x>>] = TRUE]]

place_pixel_inner(pixel, color, img, edg, mask, offs) ==
    LET k == FirstOpenOffset(pixel, offs, mask, 1)
    IN IF k = 0
       THEN [ok |-> FALSE, image |-> img, edges |-> edg, placed_pixels |-> mask]
       ELSE LET y == pixel.y + offs[k].dy
                x == pixel.x + offs[k].dx
            IN [ok |-> TRUE,
                image |-> [img EXCEPT ![<<y, x>>] = color],
                edges |-> Append(edg, Pixel(x, y)),
                placed_pixels |-> [mask EXCEPT ![<<y, x>>] = TRUE]]

AnyNeighborOpen(pixel, mask, offs) == FirstOpenOffset(pixel, offs, mask, 1) # 0

\* A revalidation that only drops entries whose mask bit is 0.
validate_inner_edges_MaskOnly(edg, mask, offs) ==
    LET Keep(pixel) == mask[<<pixel.y, pixel.x>>]
    IN SelectSeq(edg, Keep)

\* A revalidation that hands the kept entries back newest first.
validate_inner_edges_NewestFirst(edg, mask, offs) ==
    LET Keep(pixel) == mask[<<pixel.y, pixel.x>>] /\ AnyNeighborOpen(pixel, mask, offs)
        kept == SelectSeq(edg, Keep)
    IN [i \in 1..Len(kept) |-> kept[Len(kept) + 1 - i]]

validate_inner_edges(edg, mask, offs) ==
    LET Keep(pixel) == mask[<<pixel.y, pixel.x>>] /\ AnyNeighborOpen(pixel, mask, offs)
    IN SelectSeq(edg, Keep)

\* The random tries of place_seeds_common: every try draws any cell; a
\* placed cell is a failure, SeedFailureLimit failures in total end the
\* loop.  The set of possible `placed` vectors (as <<y, x>> cells).
RECURSIVE NaiveSeeding(_, _, _, _)
NaiveSeeding(count, mask, placed, failures) ==
    IF Len(placed) = count THEN {placed}
    ELSE LET open == {c \in DOMAIN mask : ~mask[c]}
             hit == UNION {NaiveSeeding(count, [mask EXCEPT ![c] = TRUE],
                                        Append(placed, c), failures) : c \in open}
             miss == IF open = DOMAIN mask THEN {}
                     ELSE IF failures + 1 >= SeedFailureLimit THEN {placed}
                     ELSE NaiveSeeding(count, mask, placed, failures + 1)
         IN hit \cup miss

\* A visitor that does not test the bit: every cell in row-major order.
for_each_false_EveryCell(mask) ==
    [k \in 1..(dimy * dimx) |-> <<(k - 1) \div dimx, (k - 1) % dimx>>]

\* BitMap::for_each_false: the unplaced cells in row-major order.
for_each_false(mask) ==
    LET all == [k \in 1..(dimy * dimx) |-> <<(k - 1) \div dimx, (k - 1) % dimx>>]
        Unset(c) == ~mask[c]
    IN SelectSeq(all, Unset)

\* SliceRandom::choose_multiple: min(amount, len) distinct elements, in any order.
choose_multiple(slice, amount) ==
    LET k == IF amount < Len(slice) THEN amount ELSE Len(slice)
        picks == {f \in [1..k -> 1..Len(slice)] :
                    \A a, b \in 1..k : a # b => f[a] # f[b]}
    IN {[i \in 1..k |-> slice[f[i]]] : f \in picks}

MarkAll(mask, cells) ==
    [c \in DOMAIN mask |-> mask[c] \/ \E i \in 1..Len(cells) : cells[i] = c]

\* A seeding without the fallback over the unplaced cells.
place_seeds_common_NaiveOnly(count, mask) == NaiveSeeding(count, mask, <<>>, 0)

\* Every vector of cells place_seeds_common(count, ...) can return.
place_seeds_common(count, mask) ==
    UNION { IF Len(placed) < count
            THEN {placed \o more :
                    more \in choose_multiple(for_each_false(MarkAll(mask, placed)),
                                             count - Len(placed))}
            ELSE {placed}
          : placed \in NaiveSeeding(count, mask, <<>>, 0) }

\* self.offsets.shuffle(rng): any permutation.
shuffle(offs) ==
    {[i \in 1..Len(offs) |-> offs[p[i]]] : p \in Permutations(1..Len(offs))}

\* generate_colors: colorcount fresh samples.
generate_colors == [1..colorcount -> Colors]

\* ------------------------------------------------------------ start
\* Every combination of the choices on images of at most MaxDim columns and
\* rows and MaxSize pixels.
AllConfigs ==
    {c \in [dimx : 1..MaxDim, dimy : 1..MaxDim, seeds : 1..MaxSeeds,
            colorcount : ColorCountChoices, workers : WorkerChoices,
            maxfitness : MaxFitnessChoices, progressors : ProgressorChoices,
            progress_interval : IntervalChoices, offsets : OffsetChoices] :
        c.dimx * c.dimy <= MaxSize}

EastSouth == <<Offset(1, 0), Offset(0, 1)>>
WestEast == <<Offset(-1, 0), Offset(1, 0)>>

\* The growth algorithm on its own: the single-threaded generator under one
\* text progressor, on every image; the two-row images with one candidate.
AlgorithmConfig(c) ==
    /\ c.workers = 1
    /\ c.progressors = <<"text">>
    /\ c.progress_interval = 0
    /\ c.dimy > 1 => c.colorcount = 1 /\ c.offsets = EastSouth

\* The worker pool on one-row images under one text progressor.
PoolConfig(c) ==
    /\ c.workers > 1
    /\ c.progressors = <<"text">>
    /\ c.progress_interval = 0
    /\ c.dimy = 1
    /\ c.offsets = WestEast

\* The barrier protocol: every progressor set, with and without workers, one
\* seed and one candidate on one-row images.
ProtocolConfig(c) ==
    /\ c.seeds = 1
    /\ c.colorcount = 1
    /\ c.dimy = 1
    /\ c.offsets = EastSouth
    /\ c.workers > 1 =>
          /\ c.progress_interval = 0
          /\ c.progressors \in {<<"file">>, <<"sdl">>, <<"text", "text">>}
          /\ c.dimx = 1 \/ c.progressors = <<"sdl">>

\* The worker pool on the two-row image, from two seeds with one candidate.
PoolSquareConfig(c) ==
    /\ c.workers > 1
    /\ c.progressors = <<"text">>
    /\ c.progress_interval = 0
    /\ c.dimx = 2 /\ c.dimy = 2
    /\ c.seeds = 2
    /\ c.colorcount = 1
    /\ c.offsets = EastSouth

\* --maxfitness 0 with and without workers: one seed and one candidate on
\* one-row images under one text progressor.
MaxFitnessConfig(c) ==
    /\ c.progressors = <<"text">>
    /\ c.progress_interval = 0
    /\ c.dimy = 1
    /\ c.seeds = 1
    /\ c.colorcount = 1
    /\ c.offsets = WestEast

Configs ==
    {c \in AllConfigs :
        IF c.maxfitness.some THEN MaxFitnessConfig(c)
        ELSE \/ AlgorithmConfig(c) \/ PoolConfig(c) \/ ProtocolConfig(c)
             \/ PoolSquareConfig(c)}

\* setup::handle_opts, generate::handle_opts, progress::handle_opts and the
\* two thread spawns of main.
\* No library call has been made on its own.
LibIdle ==
    /\ bitmap = None
    /\ geometry = None
    /\ group = None
    /\ getopt = None
    /\ seeding = None
    /\ split = None
    /\ call = None

\* The state of a generation run after construction (setup, main).
RunInit(configs) ==
    /\ cfg \in configs
    /\ offsets = cfg.offsets
    /\ image = [c \in Cells |-> ZeroColor]
    /\ placed_pixels = [c \in Cells |-> FALSE]
    /\ edges = <<>>
    /\ lock_writer = {}
    /\ lock_readers = {}
    /\ finished = FALSE
    /\ pixels_placed = 0
    /\ pixels_generated = 0
    /\ barrier_generation = 0
    /\ gpc = "seed"
    /\ seed_locations = <<>>
    /\ colors = <<>>
    /\ best_places = <<>>
    /\ idx = 0
    /\ gen_finished = FALSE
    /\ revalidated = FALSE
    /\ steps = 0
    /\ step_start = None
    /\ exact_match = FALSE
    /\ wpc = [i \in Workers |-> "unspawned"]
    /\ w_colors = [i \in Workers |-> <<>>]
    /\ w_best = [i \in Workers |-> <<>>]
    /\ colors_ch = [i \in Workers |-> <<>>]
    /\ colors_tx_open = TRUE
    /\ edges_ch = [i \in Workers |-> <<>>]
    /\ best_ch = <<>>
    /\ spc = "arriveOuterA"
    /\ sched = "sup"
    /\ inner_waiting = {}
    /\ ppc = [j \in Progs |-> "arriveA"]
    /\ step_count = [j \in Progs |-> 0]
    /\ quit_requested = [j \in Progs |-> FALSE]
    /\ final_outputs = [j \in Progs |-> 0]

InitWith(configs) == LibIdle /\ RunInit(configs)

Init == InitWith(Configs)

\* ------------------------------------------------------------ RwLock
CanWrite == lock_writer = {} /\ lock_readers = {}
CanRead == lock_writer = {}

\* ------------------------------------------------------ outer barrier
\* std::sync::Barrier with two parties, used for rendezvous A and B alike:
\* the second arrival releases whoever waits and starts a new generation.
GenBlocked == gpc \in {"blockedA", "blockedB"}
SupBlocked == spc \in {"blockedOuterA", "blockedOuterB"}
\* A generator that takes its release from rendezvous A for the one from B.
GenReleased_SkipsScan == "afterB"
GenReleased == IF gpc = "blockedA" THEN "afterA" ELSE "afterB"
SupReleased == IF spc = "blockedOuterA" THEN "arriveInnerA" ELSE "arriveOuterA"

\* The generator calls progress_barrier.wait(); blocked/after are its
\* positions while waiting and after the release.
GenWait(blocked, after) ==
    IF SupBlocked
    THEN /\ gpc' = after
         /\ spc' = SupReleased
         /\ barrier_generation' = 1 - barrier_generation
    ELSE /\ gpc' = blocked
         /\ UNCHANGED <<spc, barrier_generation>>

SupWait(blocked, after) ==
    IF GenBlocked
    THEN /\ spc' = after
         /\ gpc' = GenReleased
         /\ barrier_generation' = 1 - barrier_generation
    ELSE /\ spc' = blocked
         /\ UNCHANGED <<gpc, barrier_generation>>

\* ------------------------------------------------------ generator
\* The locked data and the placed counter an iteration starts from.
Snapshot(img, mask, edg, placed) ==
    Some([image |-> img, placed_pixels |-> mask, edges |-> edg, pixels_placed |-> placed])

\* Under a max_fitness cap, some candidate has fitness 0 against some
\* frontier pixel.
ExactMatch(cols) ==
    /\ maxfitness.some
    /\ \E j \in 1..Len(cols), i \in 1..Len(edges) :
        fitness(image[<<edges[i].y, edges[i].x>>], cols[j]) = 0

Pixels(cells) == [i \in 1..Len(cells) |-> Pixel(cells[i][2], cells[i][1])]

\* place_seeds_common under the write guard: the image and mask are
\* written, the returned locations are not yet counted nor in edges.
PlaceSeeds(count) ==
    /\ CanWrite
    /\ lock_writer' = {GenId}
    /\ \E cells \in place_seeds_common(count, placed_pixels) :
         \E cs \in [1..Len(cells) -> Colors] :
            /\ image' = [c \in Cells |->
                           IF \E i \in 1..Len(cells) : cells[i] = c
                           THEN cs[CHOOSE i \in 1..Len(cells) : cells[i] = c]
                           ELSE image[c]]
            /\ placed_pixels' = MarkAll(placed_pixels, cells)
            /\ seed_locations' = Pixels(cells)

\* A seed block that counts its seeds as placed but not as generated.
CommitSeeds_PlacedOnly ==
    /\ pixels_generated' = pixels_generated
    /\ pixels_placed' = pixels_placed + Len(seed_locations)
    /\ edges' = edges \o seed_locations
    /\ seed_locations' = <<>>
    /\ revalidated' = FALSE
    /\ lock_writer' = {}

\* A seed block that counts the seeds asked for, not the seeds returned.
CommitSeeds_CountsRequested ==
    /\ pixels_generated' = pixels_generated + Len(seed_locations)
    /\ pixels_placed' = pixels_placed + (IF gpc = "seed_commit" THEN seeds ELSE 1)
    /\ edges' = edges \o seed_locations
    /\ seed_locations' = <<>>
    /\ revalidated' = FALSE
    /\ lock_writer' = {}

\* The two fetch_adds, edges.extend and the drop of the write guard.
CommitSeeds ==
    /\ pixels_generated' = pixels_generated + Len(seed_locations)
    /\ pixels_placed' = pixels_placed + Len(seed_locations)
    /\ edges' = edges \o seed_locations
    /\ seed_locations' = <<>>
    /\ revalidated' = FALSE
    /\ lock_writer' = {}

GenSeed ==
    /\ gpc = "seed"
    /\ PlaceSeeds(seeds)
    /\ gpc' = "seed_commit"
    /\ UNCHANGED <<libVars, cfg, exact_match, steps, step_start, revalidated, edges, lock_readers, atomicVars, barrier_generation,
                   offsets, colors, best_places, idx, workerVars, chanVars, progVars>>

\* Ends the seed block; with workers > 1 the worker threads are spawned
\* before the supervisor loop starts.
GenSeedCommit ==
    /\ gpc = "seed_commit"
    /\ CommitSeeds
    /\ gpc' = "loop"
    /\ wpc' = [i \in Workers |-> "check"]
    /\ UNCHANGED <<libVars, cfg, exact_match, steps, step_start, image, placed_pixels, lock_readers, finished, gen_finished,
                   barrier_generation, offsets, colors, best_places, idx,
                   w_colors, w_best, chanVars, progVars>>

\* A loop top that goes on to the barrier whatever the frontier holds.
GenLoop_NoFrontierTest ==
    /\ gpc = "loop"
    /\ CanWrite
    /\ best_places' = NoBest(colorcount)
    /\ step_start' = Snapshot(image, placed_pixels, edges, pixels_placed)
    /\ gpc' = "arriveA"
    /\ UNCHANGED <<libVars, cfg, exact_match, steps, revalidated, lockedVars, lockVars, atomicVars, barrier_generation,
                   offsets, seed_locations, colors, idx, workerVars, chanVars, progVars>>

\* Top of the loop with a non-empty frontier: the write guard is taken
\* and dropped at once.
GenLoop ==
    /\ gpc = "loop"
    /\ CanWrite
    /\ Len(edges) # 0
    /\ best_places' = NoBest(colorcount)
    /\ step_start' = Snapshot(image, placed_pixels, edges, pixels_placed)
    /\ gpc' = "arriveA"
    /\ UNCHANGED <<libVars, cfg, exact_match, steps, revalidated, lockedVars, lockVars, atomicVars, barrier_generation,
                   offsets, seed_locations, colors, idx, workerVars, chanVars, progVars>>

\* Top of the loop with an empty frontier: re-seed one pixel.
GenReseed ==
    /\ gpc = "loop"
    /\ Len(edges) = 0
    /\ PlaceSeeds(1)
    /\ best_places' = NoBest(colorcount)
    /\ gpc' = "reseed_commit"
    /\ UNCHANGED <<libVars, cfg, exact_match, steps, step_start, revalidated, edges, lock_readers, atomicVars, barrier_generation,
                   offsets, colors, idx, workerVars, chanVars, progVars>>

GenReseedCommit ==
    /\ gpc = "reseed_commit"
    /\ CommitSeeds
    /\ step_start' = Snapshot(image, placed_pixels, edges', pixels_placed')
    /\ gpc' = "arriveA"
    /\ UNCHANGED <<libVars, cfg, exact_match, steps, image, placed_pixels, lock_readers, finished, gen_finished,
                   barrier_generation, offsets, colors, best_places, idx,
                   workerVars, chanVars, progVars>>

\* Barrier rendezvous A.  The worker-pool path takes a read guard first and
\* keeps it across the wait.
GenArriveA ==
    /\ gpc = "arriveA"
    /\ IF workers > 1
       THEN /\ CanRead
            /\ lock_readers' = lock_readers \cup {GenId}
       ELSE UNCHANGED lock_readers
    /\ GenWait("blockedA", "afterA")
    /\ UNCHANGED <<libVars, cfg, exact_match, steps, step_start, revalidated, lockedVars, lock_writer, atomicVars, offsets, seed_locations,
                   colors, best_places, idx, workerVars, chanVars,
                   sched, inner_waiting, ppc, step_count, quit_requested, final_outputs>>

\* A supervisor that leaves its loop after rendezvous A whatever finished
\* is, and without dropping colors_tx.
GenAfterA_LeavesWithColorsTx ==
    /\ gpc = "afterA"
    /\ gpc' = IF workers = 1 THEN "done" ELSE "join"
    /\ lock_readers' = lock_readers \ {GenId}
    /\ UNCHANGED <<colors, pixels_generated, idx, steps, exact_match, colors_tx_open>>
    /\ UNCHANGED <<libVars, cfg, step_start, revalidated, lockedVars, lock_writer, finished, pixels_placed, gen_finished,
                   barrier_generation, offsets, seed_locations, best_places,
                   workerVars, colors_ch, edges_ch, best_ch, progVars>>

\* After A: leave the loop when finished; otherwise the single-threaded path
\* samples the candidates and the worker-pool path starts sending ranges.
GenAfterA ==
    /\ gpc = "afterA"
    /\ IF finished
       THEN /\ gpc' = IF workers = 1 THEN "done" ELSE "join"
            /\ colors_tx_open' = (workers = 1 /\ colors_tx_open)
            /\ lock_readers' = lock_readers \ {GenId}
            /\ UNCHANGED <<colors, pixels_generated, idx, steps, exact_match>>
       ELSE IF workers = 1
       THEN /\ steps < MaxSteps
            /\ steps' = steps + 1
            /\ colors' \in generate_colors
            /\ exact_match' = (exact_match \/ ExactMatch(colors'))
            /\ pixels_generated' = pixels_generated + colorcount
            /\ gpc' = "scan"
            /\ UNCHANGED <<colors_tx_open, lock_readers, idx>>
       ELSE /\ steps < MaxSteps
            /\ steps' = steps + 1
            /\ gpc' = "send_edges"
            /\ idx' = 1
            /\ UNCHANGED <<colors, pixels_generated, colors_tx_open, lock_readers,
                           exact_match>>
    /\ UNCHANGED <<libVars, cfg, step_start, revalidated, lockedVars, lock_writer, finished, pixels_placed, gen_finished,
                   barrier_generation, offsets, seed_locations, best_places,
                   workerVars, colors_ch, edges_ch, best_ch, progVars>>

\* A scan that stops before the last frontier pixel.
GenScan_MissesLastEdge ==
    /\ gpc = "scan"
    /\ CanRead
    /\ best_places' = ScanEdges(image, edges, colors, 0, Len(edges) - 1, best_places)
    /\ gpc' = "arriveB"
    /\ UNCHANGED <<libVars, cfg, exact_match, steps, step_start, revalidated, lockedVars, lockVars,
                   atomicVars, barrier_generation, offsets, seed_locations, colors, idx,
                   workerVars, chanVars, progVars>>

\* The best-fit scan of the single-threaded path, under a read guard.
GenScan ==
    /\ gpc = "scan"
    /\ CanRead
    /\ best_places' = ScanEdges(image, edges, colors, 0, Len(edges), best_places)
    /\ gpc' = "arriveB"
    /\ UNCHANGED <<libVars, cfg, exact_match, steps, step_start, revalidated, lockedVars, lockVars, atomicVars, barrier_generation,
                   offsets, seed_locations, colors, idx, workerVars, chanVars, progVars>>

WorkerGone(i) == wpc[i] \in {"done", "panicked"}

\* A panic of the generator thread unwinds: its guards and channel ends drop.
GenPanic ==
    /\ gpc' = "panicked"
    /\ colors_tx_open' = FALSE
    /\ lock_readers' = lock_readers \ {GenId}

\* A supervisor whose read guard outlives the block of the edge sends.
GenSendEdges_KeepsGuard ==
    /\ gpc = "send_edges"
    /\ IF WorkerGone(idx)
       THEN /\ GenPanic
            /\ UNCHANGED <<edges_ch, idx>>
       ELSE /\ Len(edges_ch[idx]) < 1
            /\ edges_ch' = [edges_ch EXCEPT
                              ![idx] = Append(@, EdgeRange(idx - 1, workers, Len(edges)))]
            /\ idx' = idx + 1
            /\ gpc' = IF idx = workers THEN "send_colors" ELSE "send_edges"
            /\ UNCHANGED <<colors_tx_open, lock_readers>>
    /\ UNCHANGED <<libVars, cfg, exact_match, steps, step_start, revalidated, lockedVars, lock_writer, atomicVars, barrier_generation,
                   offsets, seed_locations, colors, best_places, workerVars,
                   colors_ch, best_ch, progVars>>

\* tx.send(range).await for worker idx; after the last one the read guard
\* is dropped.
GenSendEdges ==
    /\ gpc = "send_edges"
    /\ IF WorkerGone(idx)
       THEN /\ GenPanic
            /\ UNCHANGED <<edges_ch, idx>>
       ELSE /\ Len(edges_ch[idx]) < 1
            /\ edges_ch' = [edges_ch EXCEPT
                              ![idx] = Append(@, EdgeRange(idx - 1, workers, Len(edges)))]
            /\ idx' = idx + 1
            /\ gpc' = IF idx = workers THEN "send_colors" ELSE "send_edges"
            /\ lock_readers' = IF idx = workers THEN lock_readers \ {GenId}
                               ELSE lock_readers
            /\ UNCHANGED colors_tx_open
    /\ UNCHANGED <<libVars, cfg, exact_match, steps, step_start, revalidated, lockedVars, lock_writer, atomicVars, barrier_generation,
                   offsets, seed_locations, colors, best_places, workerVars,
                   colors_ch, best_ch, progVars>>

\* A broadcast receiver of capacity 1 that still holds a value lags.
Broadcast(queue, value) == IF Len(queue) < 1 THEN <<Some(value)>> ELSE <<None>>

\* generate_colors, the fetch_add and colors_tx.send.
GenSendColors ==
    /\ gpc = "send_colors"
    /\ \E cs \in generate_colors :
         /\ colors' = cs
         /\ exact_match' = (exact_match \/ ExactMatch(cs))
         /\ pixels_generated' = pixels_generated + colorcount
         /\ IF \A i \in Workers : WorkerGone(i)
            THEN /\ GenPanic
                 /\ UNCHANGED <<colors_ch, idx>>
            ELSE /\ colors_ch' = [i \in Workers |->
                                    IF WorkerGone(i) THEN colors_ch[i]
                                    ELSE Broadcast(colors_ch[i], cs)]
                 /\ gpc' = "arriveB"
                 /\ idx' = 1
                 /\ UNCHANGED <<colors_tx_open, lock_readers>>
    /\ UNCHANGED <<libVars, cfg, steps, step_start, revalidated, lockedVars, lock_writer, finished, pixels_placed, gen_finished,
                   barrier_generation, offsets, seed_locations, best_places,
                   workerVars, edges_ch, best_ch, progVars>>

\* Barrier rendezvous B.
GenArriveB ==
    /\ gpc = "arriveB"
    /\ GenWait("blockedB", "afterB")
    /\ UNCHANGED <<libVars, cfg, exact_match, steps, step_start, revalidated, lockedVars, lockVars, atomicVars, offsets, seed_locations,
                   colors, best_places, idx, workerVars, chanVars,
                   sched, inner_waiting, ppc, step_count, quit_requested, final_outputs>>

\* best_places_rx.recv().await, merged into best_places.
GenGather ==
    /\ gpc = "afterB"
    /\ workers > 1
    /\ idx <= workers
    /\ Len(best_ch) > 0
    /\ best_places' = ReduceBest(best_places, Head(best_ch), maxfitness)
    /\ best_ch' = Tail(best_ch)
    /\ idx' = idx + 1
    /\ UNCHANGED <<libVars, cfg, exact_match, steps, step_start, revalidated, lockedVars, lockVars, atomicVars, barrier_generation, gpc,
                   offsets, seed_locations, colors, workerVars,
                   colors_ch, colors_tx_open, edges_ch, progVars>>

\* After B (and the gathering): take the write guard and shuffle the offsets.
GenPlaceLock ==
    /\ gpc = "afterB"
    /\ workers = 1 \/ idx > workers
    /\ CanWrite
    /\ lock_writer' = {GenId}
    /\ offsets' \in shuffle(offsets)
    /\ idx' = 1
    /\ gpc' = "placing"
    /\ UNCHANGED <<libVars, cfg, exact_match, steps, step_start, revalidated, lockedVars, lock_readers, atomicVars, barrier_generation,
                   seed_locations, colors, best_places, workerVars, chanVars, progVars>>

\* A placement loop that gives up the batch at the first miss.
GenPlaceOne_StopsOnMiss ==
    /\ gpc = "placing"
    /\ idx <= colorcount
    /\ LET best == best_places[idx]
           r == place_pixel_inner(best.value.pixel, colors[idx], image, edges,
                                  placed_pixels, offsets)
       IN IF best.some /\ r.ok
          THEN /\ image' = r.image
               /\ placed_pixels' = r.placed_pixels
               /\ edges' = r.edges
               /\ revalidated' = FALSE
               /\ gpc' = "place_count"
               /\ UNCHANGED idx
          ELSE /\ idx' = colorcount + 1
               /\ UNCHANGED <<lockedVars, gpc, revalidated>>
    /\ UNCHANGED <<libVars, cfg, exact_match, steps, step_start, lockVars, atomicVars, barrier_generation, offsets,
                   seed_locations, colors, best_places, workerVars, chanVars, progVars>>

\* One turn of the placement loop: candidate idx, if it found a frontier
\* pixel, is placed next to it by place_pixel_inner.
GenPlaceOne ==
    /\ gpc = "placing"
    /\ idx <= colorcount
    /\ LET best == best_places[idx]
           r == place_pixel_inner(best.value.pixel, colors[idx], image, edges,
                                  placed_pixels, offsets)
       IN IF best.some /\ r.ok
          THEN /\ image' = r.image
               /\ placed_pixels' = r.placed_pixels
               /\ edges' = r.edges
               /\ revalidated' = FALSE
               /\ gpc' = "place_count"
               /\ UNCHANGED idx
          ELSE /\ idx' = idx + 1
               /\ UNCHANGED <<lockedVars, gpc, revalidated>>
    /\ UNCHANGED <<libVars, cfg, exact_match, steps, step_start, lockVars, atomicVars, barrier_generation, offsets,
                   seed_locations, colors, best_places, workerVars, chanVars, progVars>>

\* A placement that is never counted.
GenPlaceCount_Uncounted ==
    /\ gpc = "place_count"
    /\ idx' = idx + 1
    /\ gpc' = "placing"
    /\ UNCHANGED <<libVars, cfg, exact_match, steps, step_start, revalidated, lockedVars, lockVars, atomicVars,
                   barrier_generation, offsets, seed_locations, colors, best_places,
                   workerVars, chanVars, progVars>>

\* pixels_placed.fetch_add(1) after a successful placement.
GenPlaceCount ==
    /\ gpc = "place_count"
    /\ pixels_placed' = pixels_placed + 1
    /\ idx' = idx + 1
    /\ gpc' = "placing"
    /\ UNCHANGED <<libVars, cfg, exact_match, steps, step_start, revalidated, lockedVars, lockVars, finished, pixels_generated, gen_finished,
                   barrier_generation, offsets, seed_locations, colors, best_places,
                   workerVars, chanVars, progVars>>

\* A step that stores finished whatever pixels_placed is.
GenPlaceEnd_AlwaysFinished ==
    /\ gpc = "placing"
    /\ idx > colorcount
    /\ finished' = TRUE
    /\ gen_finished' = TRUE
    /\ lock_writer' = {}
    /\ colors' = <<>>
    /\ best_places' = <<>>
    /\ idx' = 0
    /\ step_start' = None
    /\ gpc' = "loop"
    /\ UNCHANGED <<libVars, cfg, exact_match, steps, revalidated, lockedVars, lock_readers, pixels_placed,
                   pixels_generated, barrier_generation, offsets, seed_locations,
                   workerVars, chanVars, progVars>>

\* End of the step: finished is stored, or the frontier is revalidated; the
\* write guard drops at the end of the iteration.
GenPlaceEnd ==
    /\ gpc = "placing"
    /\ idx > colorcount
    /\ IF pixels_placed = size
       THEN /\ finished' = TRUE
            /\ gen_finished' = TRUE
            /\ UNCHANGED <<edges, revalidated>>
       ELSE /\ edges' = validate_inner_edges(edges, placed_pixels, offsets)
            /\ revalidated' = TRUE
            /\ UNCHANGED <<finished, gen_finished>>
    /\ lock_writer' = {}
    /\ colors' = <<>>
    /\ best_places' = <<>>
    /\ idx' = 0
    /\ step_start' = None
    /\ gpc' = "loop"
    /\ UNCHANGED <<libVars, cfg, exact_match, steps, image, placed_pixels, lock_readers, pixels_placed,
                   pixels_generated, barrier_generation, offsets, seed_locations,
                   workerVars, chanVars, progVars>>

\* handle.join() of every worker, after drop(colors_tx).
GenJoin ==
    /\ gpc = "join"
    /\ \A i \in Workers : WorkerGone(i)
    /\ gpc' = "done"
    /\ UNCHANGED <<libVars, cfg, exact_match, steps, step_start, revalidated, lockedVars, lockVars, atomicVars, barrier_generation,
                   offsets, seed_locations, colors, best_places, idx,
                   workerVars, chanVars, progVars>>

Generator ==
    \/ GenSeed \/ GenSeedCommit \/ GenLoop \/ GenReseed \/ GenReseedCommit
    \/ GenArriveA \/ GenAfterA \/ GenScan \/ GenSendEdges \/ GenSendColors
    \/ GenArriveB \/ GenGather \/ GenPlaceLock \/ GenPlaceOne \/ GenPlaceCount
    \/ GenPlaceEnd \/ GenJoin

\* ------------------------------------------------------------ workers
GenGone == gpc \in {"done", "panicked"}

\* while !finished
WorkerCheck(i) ==
    /\ wpc[i] = "check"
    /\ wpc' = [wpc EXCEPT ![i] = IF finished THEN "done" ELSE "recv_colors"]
    /\ UNCHANGED <<libVars, cfg, lockedVars, lockVars, atomicVars, barrier_generation,
                   genVars, w_colors, w_best, chanVars, progVars>>

\* colors_rx.recv().await: a value, Lagged (a panic) or Closed (exit).
WorkerRecvColors(i) ==
    /\ wpc[i] = "recv_colors"
    /\ IF Len(colors_ch[i]) > 0
       THEN /\ wpc' = [wpc EXCEPT ![i] = IF Head(colors_ch[i]).some
                                         THEN "lock" ELSE "panicked"]
            /\ w_colors' = [w_colors EXCEPT ![i] = IF Head(colors_ch[i]).some
                                                   THEN Head(colors_ch[i]).value
                                                   ELSE <<>>]
            /\ colors_ch' = [colors_ch EXCEPT ![i] = Tail(@)]
       ELSE /\ ~colors_tx_open
            /\ wpc' = [wpc EXCEPT ![i] = "done"]
            /\ UNCHANGED <<w_colors, colors_ch>>
    /\ UNCHANGED <<libVars, cfg, lockedVars, lockVars, atomicVars, barrier_generation,
                   genVars, w_best, colors_tx_open, edges_ch, best_ch, progVars>>

\* locked.read()
WorkerLock(i) ==
    /\ wpc[i] = "lock"
    /\ CanRead
    /\ lock_readers' = lock_readers \cup {WorkerId(i)}
    /\ wpc' = [wpc EXCEPT ![i] = "recv_edges"]
    /\ UNCHANGED <<libVars, cfg, lockedVars, lock_writer, atomicVars, barrier_generation,
                   genVars, w_colors, w_best, chanVars, progVars>>

\* edges_rx.recv().await under the read guard, the scan of the chunk and
\* the drop of the guard.  A closed channel is a panic.
WorkerScan(i) ==
    /\ wpc[i] = "recv_edges"
    /\ IF Len(edges_ch[i]) > 0
       THEN /\ w_best' = [w_best EXCEPT
                            ![i] = ScanEdges(image, edges, w_colors[i],
                                             Head(edges_ch[i]).lo, Head(edges_ch[i]).hi,
                                             NoBest(colorcount))]
            /\ edges_ch' = [edges_ch EXCEPT ![i] = Tail(@)]
            /\ wpc' = [wpc EXCEPT ![i] = "send_best"]
       ELSE /\ GenGone
            /\ wpc' = [wpc EXCEPT ![i] = "panicked"]
            /\ UNCHANGED <<w_best, edges_ch>>
    /\ lock_readers' = lock_readers \ {WorkerId(i)}
    /\ UNCHANGED <<libVars, cfg, lockedVars, lock_writer, atomicVars, barrier_generation,
                   genVars, w_colors, colors_ch, colors_tx_open, best_ch, progVars>>

\* best_places_tx.send(best_places).await
WorkerSendBest(i) ==
    /\ wpc[i] = "send_best"
    /\ IF GenGone
       THEN /\ wpc' = [wpc EXCEPT ![i] = "panicked"]
            /\ UNCHANGED best_ch
       ELSE /\ Len(best_ch) < workers
            /\ best_ch' = Append(best_ch, w_best[i])
            /\ wpc' = [wpc EXCEPT ![i] = "check"]
    /\ w_best' = [w_best EXCEPT ![i] = <<>>]
    /\ w_colors' = [w_colors EXCEPT ![i] = <<>>]
    /\ UNCHANGED <<libVars, cfg, lockedVars, lockVars, atomicVars, barrier_generation,
                   genVars, colors_ch, colors_tx_open, edges_ch, progVars>>

Worker(i) ==
    \/ WorkerCheck(i) \/ WorkerRecvColors(i) \/ WorkerLock(i)
    \/ WorkerScan(i) \/ WorkerSendBest(i)

\* ------------------------------------------------------ inner barrier
\* tokio::sync::Barrier with one party per progressor plus the supervisor.
\* The last arrival releases every waiting task and runs on; an earlier
\* arrival suspends, which under run_alone (one thread, two tasks) hands
\* the thread to the other task.
ProgAfterB(j) == IF progressors[j] = "sdl" THEN "afterB" ELSE "arriveA"
ProgReleased(j) == IF ppc[j] = "blockedA" THEN "afterA" ELSE ProgAfterB(j)
SupInnerReleased == IF spc = "blockedInnerA" THEN "check" ELSE "arriveOuterB"
LastAtInner == Cardinality(inner_waiting) + 1 = InnerParties

SupInnerWait(blocked, after) ==
    IF LastAtInner
    THEN /\ inner_waiting' = {}
         /\ spc' = after
         /\ ppc' = [j \in Progs |-> IF ProgId(j) \in inner_waiting
                                   THEN ProgReleased(j) ELSE ppc[j]]
         /\ UNCHANGED sched
    ELSE /\ inner_waiting' = inner_waiting \cup {SupId}
         /\ spc' = blocked
         /\ sched' = IF SingleMode THEN "prog" ELSE sched
         /\ UNCHANGED ppc

ProgInnerWait(j, blocked, after) ==
    IF LastAtInner
    THEN /\ inner_waiting' = {}
         /\ spc' = IF SupId \in inner_waiting THEN SupInnerReleased ELSE spc
         /\ ppc' = [k \in Progs |-> IF k = j THEN after
                                   ELSE IF ProgId(k) \in inner_waiting
                                   THEN ProgReleased(k) ELSE ppc[k]]
         /\ UNCHANGED sched
    ELSE /\ inner_waiting' = inner_waiting \cup {ProgId(j)}
         /\ ppc' = [ppc EXCEPT ![j] = blocked]
         /\ sched' = IF SingleMode THEN "sup" ELSE sched
         /\ UNCHANGED spc

\* ------------------------------------------------------ supervisor
SupRuns == SingleMode => sched = "sup"
ProgRuns == SingleMode => sched = "prog"

SupArriveOuterA ==
    /\ spc = "arriveOuterA"
    /\ SupRuns
    /\ SupWait("blockedOuterA", "arriveInnerA")
    /\ UNCHANGED <<libVars, cfg, exact_match, steps, step_start, revalidated, lockedVars, lockVars, atomicVars, offsets, seed_locations,
                   colors, best_places, idx, workerVars, chanVars,
                   sched, inner_waiting, ppc, step_count, quit_requested, final_outputs>>

SupArriveInnerA ==
    /\ spc = "arriveInnerA"
    /\ SupRuns
    /\ SupInnerWait("blockedInnerA", "check")
    /\ UNCHANGED <<libVars, cfg, lockedVars, lockVars, atomicVars, barrier_generation,
                   genVars, workerVars, chanVars, step_count, quit_requested, final_outputs>>

\* A supervisor that never tests finished.
SupCheck_NeverBreaks ==
    /\ spc = "check"
    /\ SupRuns
    /\ spc' = "arriveInnerB"
    /\ UNCHANGED <<libVars, cfg, lockedVars, lockVars, atomicVars, barrier_generation,
                   genVars, workerVars, chanVars, sched, inner_waiting, ppc,
                   step_count, quit_requested, final_outputs>>

\* if finished { break }, then the join of the task(s).
SupCheck ==
    /\ spc = "check"
    /\ SupRuns
    /\ spc' = IF finished THEN "join" ELSE "arriveInnerB"
    /\ sched' = IF finished /\ SingleMode /\ ppc[1] # "done" THEN "prog" ELSE sched
    /\ UNCHANGED <<libVars, cfg, lockedVars, lockVars, atomicVars, barrier_generation,
                   genVars, workerVars, chanVars, inner_waiting, ppc,
                   step_count, quit_requested, final_outputs>>

\* A supervisor that goes on to rendezvous B without the inner barrier.
SupArriveInnerB_SkipsWait ==
    /\ spc = "arriveInnerB"
    /\ SupRuns
    /\ spc' = "arriveOuterB"
    /\ UNCHANGED <<libVars, cfg, lockedVars, lockVars, atomicVars, barrier_generation,
                   genVars, workerVars, chanVars, step_count, quit_requested, final_outputs,
                   sched, inner_waiting, ppc>>

SupArriveInnerB ==
    /\ spc = "arriveInnerB"
    /\ SupRuns
    /\ SupInnerWait("blockedInnerB", "arriveOuterB")
    /\ UNCHANGED <<libVars, cfg, lockedVars, lockVars, atomicVars, barrier_generation,
                   genVars, workerVars, chanVars, step_count, quit_requested, final_outputs>>

SupArriveOuterB ==
    /\ spc = "arriveOuterB"
    /\ SupRuns
    /\ SupWait("blockedOuterB", "arriveOuterA")
    /\ UNCHANGED <<libVars, cfg, exact_match, steps, step_start, revalidated, lockedVars, lockVars, atomicVars, offsets, seed_locations,
                   colors, best_places, idx, workerVars, chanVars,
                   sched, inner_waiting, ppc, step_count, quit_requested, final_outputs>>

\* task.await / the end of thread::scope
SupJoin ==
    /\ spc = "join"
    /\ SupRuns
    /\ \A j \in Progs : ppc[j] = "done"
    /\ spc' = "done"
    /\ UNCHANGED <<libVars, cfg, lockedVars, lockVars, atomicVars, barrier_generation,
                   genVars, workerVars, chanVars, sched, inner_waiting, ppc,
                   step_count, quit_requested, final_outputs>>

Supervisor ==
    \/ SupArriveOuterA \/ SupArriveInnerA \/ SupCheck
    \/ SupArriveInnerB \/ SupArriveOuterB \/ SupJoin

\* ------------------------------------------------------ progressors
\* A task that returns hands the run_alone thread back to the supervisor.
SchedAfter(pc) == IF SingleMode /\ pc = "done" THEN "sup" ELSE sched

ProgArriveA(j) ==
    /\ ppc[j] = "arriveA"
    /\ ProgRuns
    /\ ProgInnerWait(j, "blockedA", "afterA")
    /\ UNCHANGED <<libVars, cfg, lockedVars, lockVars, atomicVars, barrier_generation,
                   genVars, workerVars, chanVars, step_count, quit_requested, final_outputs>>

ProgArriveB(j) ==
    /\ ppc[j] = "arriveB"
    /\ ProgRuns
    /\ ProgInnerWait(j, "blockedB", ProgAfterB(j))
    /\ UNCHANGED <<libVars, cfg, lockedVars, lockVars, atomicVars, barrier_generation,
                   genVars, workerVars, chanVars, step_count, quit_requested, final_outputs>>

\* The progressor calls its callback or writes the image: counted when
\* finished is already set.
Output(j) == [final_outputs EXCEPT ![j] = IF finished THEN @ + 1 ELSE @]

\* TextProgressor after A: break when finished; every progress_interval
\* steps try_read the frontier length and call back.
TextAfterA(j) ==
    /\ ppc[j] = "afterA"
    /\ progressors[j] = "text"
    /\ ProgRuns
    /\ LET next == IF finished THEN "done"
                   ELSE IF step_count[j] >= progress_interval /\ CanRead THEN "reading"
                   ELSE "arriveB"
       IN /\ ppc' = [ppc EXCEPT ![j] = next]
          /\ sched' = SchedAfter(next)
          /\ lock_readers' = IF next = "reading" THEN lock_readers \cup {ProgId(j)}
                             ELSE lock_readers
    /\ step_count' = [step_count EXCEPT
                        ![j] = IF finished THEN @
                               ELSE IF @ >= progress_interval THEN 0 ELSE @ + 1]
    /\ final_outputs' = IF ~finished /\ step_count[j] >= progress_interval
                        THEN Output(j) ELSE final_outputs
    /\ UNCHANGED <<libVars, cfg, lockedVars, lock_writer, atomicVars, barrier_generation,
                   genVars, workerVars, chanVars, spc, inner_waiting, quit_requested>>

\* FileProgressor after A: every progress_interval steps write the image.
FileAfterA(j) ==
    /\ ppc[j] = "afterA"
    /\ progressors[j] = "file"
    /\ ProgRuns
    /\ IF step_count[j] >= progress_interval
       THEN /\ CanRead
            /\ lock_readers' = lock_readers \cup {ProgId(j)}
            /\ step_count' = [step_count EXCEPT ![j] = 0]
            /\ final_outputs' = Output(j)
            /\ ppc' = [ppc EXCEPT ![j] = "reading"]
       ELSE /\ step_count' = [step_count EXCEPT ![j] = @ + 1]
            /\ ppc' = [ppc EXCEPT ![j] = "checkFin"]
            /\ UNCHANGED <<lock_readers, final_outputs>>
    /\ UNCHANGED <<libVars, cfg, lockedVars, lock_writer, atomicVars, barrier_generation,
                   genVars, workerVars, chanVars, spc, sched, inner_waiting,
                   quit_requested>>

\* Sdl2Progressor after A: poll the events (a quit may be requested), then
\* draw the image under a read guard.
SdlAfterA(j) ==
    /\ ppc[j] = "afterA"
    /\ progressors[j] = "sdl"
    /\ ProgRuns
    /\ CanRead
    /\ \E quit \in BOOLEAN :
         quit_requested' = [quit_requested EXCEPT ![j] = @ \/ quit]
    /\ lock_readers' = lock_readers \cup {ProgId(j)}
    /\ ppc' = [ppc EXCEPT ![j] = "reading"]
    /\ UNCHANGED <<libVars, cfg, lockedVars, lock_writer, atomicVars, barrier_generation,
                   genVars, workerVars, chanVars, spc, sched, inner_waiting,
                   step_count, final_outputs>>

\* The read guard of the step drops.
ProgEndRead(j) ==
    /\ ppc[j] = "reading"
    /\ ProgRuns
    /\ lock_readers' = lock_readers \ {ProgId(j)}
    /\ ppc' = [ppc EXCEPT ![j] = IF progressors[j] = "text" THEN "arriveB"
                                 ELSE "checkFin"]
    /\ UNCHANGED <<libVars, cfg, lockedVars, lock_writer, atomicVars, barrier_generation,
                   genVars, workerVars, chanVars, spc, sched, inner_waiting,
                   step_count, quit_requested, final_outputs>>

\* File and SDL progressors test finished after their read.
ProgCheckFinished(j) ==
    /\ ppc[j] = "checkFin"
    /\ ProgRuns
    /\ LET next == IF ~finished THEN "arriveB"
                   ELSE IF progressors[j] = "file" THEN "final_read" ELSE "done"
       IN /\ ppc' = [ppc EXCEPT ![j] = next]
          /\ sched' = SchedAfter(next)
    /\ UNCHANGED <<libVars, cfg, lockedVars, lockVars, atomicVars, barrier_generation,
                   genVars, workerVars, chanVars, spc, inner_waiting,
                   step_count, quit_requested, final_outputs>>

\* FileProgressor after its loop: the final image is written under a read guard.
FileFinalRead(j) ==
    /\ ppc[j] = "final_read"
    /\ ProgRuns
    /\ CanRead
    /\ lock_readers' = lock_readers \cup {ProgId(j)}
    /\ final_outputs' = Output(j)
    /\ ppc' = [ppc EXCEPT ![j] = "final_reading"]
    /\ UNCHANGED <<libVars, cfg, lockedVars, lock_writer, atomicVars, barrier_generation,
                   genVars, workerVars, chanVars, spc, sched, inner_waiting,
                   step_count, quit_requested>>

FileFinalEnd(j) ==
    /\ ppc[j] = "final_reading"
    /\ ProgRuns
    /\ lock_readers' = lock_readers \ {ProgId(j)}
    /\ ppc' = [ppc EXCEPT ![j] = "done"]
    /\ sched' = SchedAfter("done")
    /\ UNCHANGED <<libVars, cfg, lockedVars, lock_writer, atomicVars, barrier_generation,
                   genVars, workerVars, chanVars, spc, inner_waiting,
                   step_count, quit_requested, final_outputs>>

\* Sdl2Progressor after B: a requested quit is stored into finished.
SdlAfterB(j) ==
    /\ ppc[j] = "afterB"
    /\ ProgRuns
    /\ finished' = (finished \/ quit_requested[j])
    /\ ppc' = [ppc EXCEPT ![j] = "arriveA"]
    /\ UNCHANGED <<libVars, cfg, lockedVars, lockVars, pixels_placed, pixels_generated,
                   gen_finished, barrier_generation, genVars, workerVars, chanVars,
                   spc, sched, inner_waiting, step_count, quit_requested, final_outputs>>

Progressor(j) ==
    \/ ProgArriveA(j) \/ ProgArriveB(j) \/ TextAfterA(j) \/ FileAfterA(j)
    \/ SdlAfterA(j) \/ ProgEndRead(j) \/ ProgCheckFinished(j)
    \/ FileFinalRead(j) \/ FileFinalEnd(j) \/ SdlAfterB(j)

\* ------------------------------------------------------------ system
Next ==
    \/ Generator
    \/ \E i \in Workers : Worker(i)
    \/ Supervisor
    \/ \E j \in Progs : Progressor(j)

Spec == Init /\ [][Next]_vars

\* Every thread of the process is scheduled again and again; a window event
\* of the SDL progressor is an input and is not forced.
WorkerSlots == UNION {1..w : w \in WorkerChoices}
ProgressorSlots == UNION {DOMAIN p : p \in ProgressorChoices}
Fairness ==
    /\ WF_vars(Generator)
    /\ WF_vars(Supervisor)
    /\ \A i \in WorkerSlots : WF_vars(i \in Workers /\ Worker(i))
    /\ \A j \in ProgressorSlots : WF_vars(j \in Progs /\ Progressor(j))

\* Liveness is checked on the runs without --maxfitness, the worker pool
\* on one-row images.
FairConfigs ==
    {c \in Configs : ~c.maxfitness.some /\ ~PoolSquareConfig(c)}

FairSpec == InitWith(FairConfigs) /\ [][Next]_vars /\ Fairness

\* ------------------------------------------------------------ properties
\* The outer barrier's generation is even from a rendezvous B (or the start)
\* to the next rendezvous A, and odd from A to B.
BetweenBandA == barrier_generation = 0
BetweenAandB == barrier_generation = 1
ProgReading(j) == ProgId(j) \in lock_readers
GenMutating == GenId \in lock_writer

\* C1: the generator holds the write guard of {image, placed mask, frontier}
\* (seeding, reseeding, placement, revalidation) only between barrier B and
\* the next barrier A, a progressor holds a read guard only between barrier A
\* and barrier B, and no progressor reads while the generator mutates.
C1_PhaseDiscipline ==
    /\ GenMutating => BetweenBandA
    /\ \A j \in Progs : ProgReading(j) => BetweenAandB
    /\ ~(GenMutating /\ \E j \in Progs : ProgReading(j))

\* A second-round read: one of several progressors reads after the generator
\* has grown the one-seed image by a pixel.
C1_Witness ==
    /\ Len(progressors) > 1
    /\ seeds = 1
    /\ pixels_placed = 2
    /\ \E j \in Progs : ProgReading(j)

\* Positions at or before the finished test that follows rendezvous A, and
\* those after leaving the loop.
GenLeftLoop == gpc \in {"join", "done"}
SupLeftLoop == spc \in {"join", "done"}
ProgLeftLoop(j) == ppc[j] \in {"final_read", "final_reading", "done"}
GenBeforeTest == gpc \in {"loop", "arriveA", "blockedA", "afterA"}
SupBeforeTest ==
    spc \in {"arriveOuterA", "blockedOuterA", "arriveInnerA", "blockedInnerA", "check"}
ProgBeforeTest(j) ==
    \/ ppc[j] \in {"afterB", "arriveA", "blockedA", "afterA"}
    \/ progressors[j] # "text" /\ ppc[j] \in {"reading", "checkFin"}
AllTerminated ==
    /\ gpc = "done"
    /\ spc = "done"
    /\ \A j \in Progs : ppc[j] = "done"

NoThreadPastTest ==
    /\ GenBeforeTest \/ GenLeftLoop
    /\ SupBeforeTest \/ SupLeftLoop
    /\ \A j \in Progs : ProgBeforeTest(j) \/ ProgLeftLoop(j)

\* C2: once the generator has stored finished, the generator, the supervisor
\* and every progressor take no further step of their loops beyond the
\* finished test after the next rendezvous A, and all of them terminate: none
\* stays blocked on the outer or the inner barrier.
C2_ExitAtNextA ==
    /\ [](gen_finished => NoThreadPastTest)
    /\ gen_finished ~> AllTerminated

\* The generator of a worker-pool run stored finished and every thread ended.
C2_Witness ==
    /\ gen_finished
    /\ AllTerminated
    /\ workers > 1
    /\ Len(progressors) > 1

QuitRequested == \E j \in Progs : quit_requested[j]
Completed ==
    /\ pixels_placed = size
    /\ finished
    /\ AllTerminated

\* C3 as stated: every fair run (none of the configurations sets
\* max_fitness) eventually has pixels_placed = size and finished set, with
\* the generator, supervisor and progressor threads terminated.
C3_AlwaysCompletes == <>Completed

\* C3, for the runs in which no progressor requests a quit: every fair run
\* eventually has pixels_placed = size and finished set, with the generator,
\* supervisor and progressor threads terminated, unless the SDL progressor
\* has taken a quit request.
C3_CompletesUnlessQuit == <>(Completed \/ QuitRequested)

\* A two-row image completed without any quit request.
C3_Witness ==
    /\ Completed
    /\ ~QuitRequested
    /\ dimy > 1
    /\ pixels_generated > size

\* C4: the placed counter never exceeds the number of pixels of the image,
\* whatever the seed count (also above the image size), the candidate count
\* and the worker count.
C4_PlacedAtMostSize == pixels_placed <= size

\* More seeds asked for than the image has pixels, and all of them counted.
C4_Witness ==
    /\ seeds > size
    /\ gpc = "loop"
    /\ pixels_placed = size

\* C5 as stated: whenever finished is true, pixels_placed equals the image
\* size.
C5_FinishedMeansFull == finished => pixels_placed = size

\* C5, without the quit of a progressor: whenever finished is true and no
\* progressor has taken a quit request, pixels_placed equals the image size.
C5_FinishedWithoutQuitMeansFull ==
    finished /\ ~QuitRequested => pixels_placed = size

\* finished stored by the generator after steps that placed pixels.
C5_Witness ==
    /\ finished
    /\ ~QuitRequested
    /\ seeds < size
    /\ pixels_placed = size

\* C6: whenever nobody holds the write guard, the frontier is no longer
\* than pixels_placed.
C6_FrontierAtMostPlaced == lock_writer = {} => Len(edges) <= pixels_placed

\* Every placed pixel is on the frontier after a step that placed one.
C6_Witness ==
    /\ lock_writer = {}
    /\ pixels_placed > seeds
    /\ Len(edges) = pixels_placed

\* C7: every frontier entry is marked placed in the mask, and no pixel is in
\* the frontier twice.
C7_FrontierPlacedOnce ==
    /\ \A i \in 1..Len(edges) : placed_pixels[<<edges[i].y, edges[i].x>>]
    /\ \A i, k \in 1..Len(edges) : i # k => edges[i] # edges[k]

\* A frontier of a seed, a placed pixel and a re-seeded one.
C7_Witness ==
    /\ Len(edges) >= 2
    /\ seeds = 1
    /\ pixels_placed = 3
    /\ pixels_generated > pixels_placed + colorcount

\* C8 as stated: whenever the generator waits at the barrier, every frontier
\* entry has an in-bounds neighbour under the offsets whose mask bit is 0.
C8_FrontierOpenAtBarrier ==
    GenBlocked =>
        \A i \in 1..Len(edges) : AnyNeighborOpen(edges[i], placed_pixels, offsets)

\* C8, for a revalidated frontier: whenever the generator waits at the
\* barrier and the last change of the frontier was a revalidation, every
\* frontier entry has an in-bounds neighbour under the offsets whose mask bit
\* is 0.
C8_RevalidatedFrontierOpen ==
    GenBlocked /\ revalidated =>
        \A i \in 1..Len(edges) : AnyNeighborOpen(edges[i], placed_pixels, offsets)

\* The generator waits with a revalidated frontier of two entries.
C8_Witness ==
    /\ GenBlocked
    /\ revalidated
    /\ Len(edges) >= 2

\* C9: a cell whose mask bit is 1 keeps the bit and its colour in every
\* step, a cell placed by the placement loop holds the candidate's colour,
\* and a cell whose mask bit is 0 holds the zero colour.
C9_WriteOnce ==
    /\ [][\A c \in Cells :
            placed_pixels[c] => placed_pixels'[c] /\ image'[c] = image[c]]_vars
    /\ [][gpc = "placing" /\ gpc' = "place_count" =>
            \A c \in Cells :
               ~placed_pixels[c] /\ placed_pixels'[c] => image'[c] = colors[idx]]_vars
    /\ [](\A c \in Cells : ~placed_pixels[c] => image[c] = ZeroColor)

\* A completed image of three or more pixels holding both colour levels.
C9_Witness ==
    /\ pixels_placed = size
    /\ size >= 3
    /\ \E c, d \in Cells : image[c] # image[d]
    /\ gpc = "done"

\* C10: when the supervisor has merged the results of all workers, its
\* per-candidate best (pixel, fitness) is the one the single-threaded scan
\* of the whole frontier computes for the same image, frontier and
\* candidates.
C10_PoolBestIsScanBest ==
    workers > 1 /\ gpc = "afterB" /\ idx > workers =>
        best_places = ScanAll(image, edges, colors)

\* The single-threaded scan has run and its result is not yet applied.
ScanDone == workers = 1 /\ gpc \in {"arriveB", "blockedB", "afterB"}

\* C11: after the best-fit scan, the best of every candidate is the first
\* frontier pixel, in frontier order, of least fitness for that candidate: a
\* later frontier pixel of equal fitness has not replaced it.
C11_FirstOfEqualWins ==
    ScanDone =>
        \A j \in 1..colorcount :
            LET fit(i) == fitness(image[<<edges[i].y, edges[i].x>>], colors[j])
                first == CHOOSE i \in 1..Len(edges) :
                            \A k \in 1..Len(edges) :
                                fit(i) <= fit(k) /\ (k < i => fit(k) > fit(i))
            IN best_places[j] = Best(edges[first], fit(first))

\* The placement loop runs over the final best_places of the step.
Placing == gpc \in {"placing", "place_count"}

\* C12: with max_fitness = m, for every worker count, no candidate has a
\* best whose fitness is strictly greater than m when the placement loop
\* runs, so no such candidate is placed in the step.
C12_AboveCapNeverBest ==
    maxfitness.some /\ Placing =>
        \A j \in 1..colorcount :
            best_places[j].some => best_places[j].value.fitness <= maxfitness.value

\* C13: with max_fitness = 0 and no candidate so far matching a frontier
\* colour exactly, for every worker count, a run that has not set finished
\* has executed at most 10 * size steps of the main loop.
C13_FinishesWithinBound ==
    maxfitness.some /\ maxfitness.value = 0 /\ ~exact_match /\ ~finished =>
        steps <= 10 * size

\* The count a seed phase starting in the current state asks for, and the
\* number of unplaced pixels it finds.
SeedCount == IF gpc = "seed" THEN seeds ELSE 1
Unplaced == Cardinality({c \in Cells : ~placed_pixels[c]})
SeedPhaseActs == gpc \in {"seed", "loop"} /\ gpc' \in {"seed_commit", "reseed_commit"}
SeedPhaseEnds == gpc \in {"seed_commit", "reseed_commit"} /\ gpc' # gpc

\* C14: a seed phase (initial or reseed) asked for n pixels on an image with
\* u unplaced pixels places exactly min(n, u) pixels, all distinct and all
\* unplaced before, marks exactly those in the mask, pushes each onto the
\* frontier in order and adds that number to pixels_placed and to
\* pixels_generated.
C14_SeedsPlaceMin ==
    /\ [][SeedPhaseActs =>
            LET placed == seed_locations'
                Cell(i) == <<placed[i].y, placed[i].x>>
            IN /\ Len(placed) = IF SeedCount < Unplaced THEN SeedCount ELSE Unplaced
               /\ \A i \in 1..Len(placed) : ~placed_pixels[Cell(i)]
               /\ \A i, k \in 1..Len(placed) : i # k => placed[i] # placed[k]
               /\ \A c \in Cells :
                     placed_pixels'[c] =
                        (placed_pixels[c] \/ \E i \in 1..Len(placed) : Cell(i) = c)]_vars
    /\ [][SeedPhaseEnds =>
            /\ edges' = edges \o seed_locations
            /\ pixels_placed' = pixels_placed + Len(seed_locations)
            /\ pixels_generated' = pixels_generated + Len(seed_locations)]_vars

\* The initial seed phase was asked for more pixels than the image has and
\* has placed one on every pixel.
C14_Witness ==
    /\ seeds > size
    /\ gpc = "seed_commit"
    /\ Len(seed_locations) = size

\* One iteration of the single-threaded path as a function of the locked
\* data it starts from, its candidates and its shuffled offsets: the scan,
\* the placement loop over the candidates in order, and the end of the step.
RECURSIVE PlaceAll(_, _, _, _, _)
PlaceAll(data, cols, best, offs, j) ==
    IF j > Len(cols) THEN data
    ELSE LET r == place_pixel_inner(best[j].value.pixel, cols[j], data.image,
                                    data.edges, data.placed_pixels, offs)
         IN IF best[j].some /\ r.ok
            THEN PlaceAll([image |-> r.image, placed_pixels |-> r.placed_pixels,
                           edges |-> r.edges, pixels_placed |-> data.pixels_placed + 1],
                          cols, best, offs, j + 1)
            ELSE PlaceAll(data, cols, best, offs, j + 1)

EndOfStep(data, offs) ==
    IF data.pixels_placed = size THEN data
    ELSE [data EXCEPT !.edges = validate_inner_edges(data.edges, data.placed_pixels, offs)]

SingleStep(start, cols, offs) ==
    EndOfStep(PlaceAll(start, cols, ScanAll(start.image, start.edges, cols), offs, 1), offs)

\* The last action of an iteration.
StepEnds == gpc = "placing" /\ gpc' = "loop"

C16_PoolStepIsSingleStep ==
    [][workers > 1 /\ StepEnds =>
          image' = SingleStep(step_start.value, colors, offsets).image]_vars

\* C17: when the initial seed phase fills the image (seeds >= size), no
\* iteration of the main loop passes the finished test and no candidate
\* colours are generated: pixels_generated never exceeds size, and finished
\* is set before any rendezvous B.
C17_SeedingFillsWithoutStep ==
    seeds >= size =>
        /\ steps = 0
        /\ pixels_generated <= size
        /\ gpc \in {"arriveB", "blockedB", "afterB"} => finished

\* finished was stored by a progressor, not by the generator.
QuitStored == finished /\ ~gen_finished
AllExited == AllTerminated /\ \A i \in Workers : wpc[i] = "done"

\* C18: once a progressor has stored finished, the generator, the
\* supervisor, every progressor and every worker eventually exit: no thread
\* stays blocked on the outer barrier, the inner barrier or a worker channel.
C18_QuitTerminates == QuitStored ~> AllExited

\* The supervisor has gathered the results of every worker for this step.
Gathered == workers > 1 /\ gpc = "afterB" /\ idx > workers

\* C19: in the worker-pool path no channel ever holds more than the one
\* message of the current iteration, no broadcast receiver observes Lagged,
\* no send or receive fails, a worker scans with exactly the candidates the
\* supervisor sent, every returned best-vector has length color_count, and
\* when the supervisor has gathered the results of a step every worker has
\* consumed its index range and its candidate list.
C19_OnePerWorkerPerStep ==
    /\ \A i \in Workers :
          /\ Len(edges_ch[i]) <= 1
          /\ Len(colors_ch[i]) <= 1
          /\ \A k \in 1..Len(colors_ch[i]) : colors_ch[i][k].some
          /\ wpc[i] # "panicked"
          /\ wpc[i] \in {"lock", "recv_edges"} => w_colors[i] = colors
    /\ gpc # "panicked"
    /\ Len(best_ch) <= workers
    /\ \A k \in 1..Len(best_ch) : Len(best_ch[k]) = colorcount
    /\ Gathered =>
          /\ best_ch = <<>>
          /\ \A i \in Workers : edges_ch[i] = <<>> /\ colors_ch[i] = <<>>

AllWorkersExited == \A i \in Workers : wpc[i] = "done"

\* C20: a supervisor that has left its loop has dropped colors_tx; every
\* worker then exits its loop (it reads finished or receives Closed), the
\* supervisor's joins complete, and generate has returned only with every
\* worker exited: none is left blocked on a channel.
C20_WorkersJoined ==
    /\ [](workers > 1 /\ gpc \in {"join", "done"} => ~colors_tx_open)
    /\ [](workers > 1 /\ gpc = "done" => AllWorkersExited)
    /\ (workers > 1 /\ gpc = "join") ~> (gpc = "done" /\ AllWorkersExited)

\* generate has returned from a worker-pool run that completed a two-pixel
\* image, with every worker exited.
C20_Witness ==
    /\ workers > 1
    /\ gpc = "done"
    /\ AllWorkersExited
    /\ ~colors_tx_open
    /\ size = 2
    /\ pixels_placed = size

\* ------------------------------------------------ guards at blocking calls
Holds(t) == t \in lock_readers \cup lock_writer
HoldsShared(t) == t \in lock_readers

\* The generator is at progress_barrier.wait(), at tx.send(range).await or
\* at best_places_rx.recv().await.
GenAtBarrier == gpc \in {"blockedA", "blockedB"}
GenAtChannel ==
    \/ gpc = "send_edges"
    \/ gpc = "afterB" /\ workers > 1 /\ idx <= workers
\* A worker is at colors_rx.recv(), edges_rx.recv() or best_places_tx.send().
WorkerAtChannel(i) == wpc[i] \in {"recv_colors", "recv_edges", "send_best"}
\* A progressor or the progress supervisor waits on one of its barriers.
ProgAtBarrier(j) == ppc[j] \in {"blockedA", "blockedB"}
SupAtBarrier ==
    spc \in {"blockedOuterA", "blockedOuterB", "blockedInnerA", "blockedInnerB"}

\* The worker phase of a step: a worker is inside its best-place block, or
\* the supervisor is between its finished test and the end of the gathering.
WorkerPhase ==
    \/ \E i \in Workers : wpc[i] \in {"lock", "recv_edges"}
    \/ /\ workers > 1
       /\ \/ gpc \in {"send_edges", "send_colors", "arriveB", "blockedB"}
          \/ gpc = "afterB" /\ idx <= workers

C22_GeneratedAtLeastPlaced ==
    ~GenMutating => pixels_generated >= pixels_placed

\* Between two steps, after a step that placed a pixel and discarded a
\* candidate: strictly more generated than placed.
C22_Witness ==
    /\ gpc = "loop"
    /\ ~GenMutating
    /\ steps >= 1
    /\ pixels_placed > seeds
    /\ pixels_generated > pixels_placed

\* ============================================================ bitmap
\* bitmap::BitMap exercised on its own: the bytes of `data` are naturals
\* below 256 and the bit operators work on their binary digits.

\* A generation run that has not started, next to a library under test.
IdleConfig ==
    [dimx |-> 1, dimy |-> 1, seeds |-> 1, colorcount |-> 1, workers |-> 1,
     maxfitness |-> None, offsets |-> WestEast, progressors |-> <<"text">>,
     progress_interval |-> 0]
RunIdle == RunInit({IdleConfig})

Shl(k) == 2 ^ k
Bit(byte, k) == (byte \div Shl(k)) % 2
RECURSIVE BitAnd(_, _, _)
BitAnd(a, b, k) ==
    IF k = 8 THEN 0
    ELSE Shl(k) * (Bit(a, k) * Bit(b, k)) + BitAnd(a, b, k + 1)
RECURSIVE BitOr(_, _, _)
BitOr(a, b, k) ==
    IF k = 8 THEN 0
    ELSE Shl(k) * (IF Bit(a, k) + Bit(b, k) > 0 THEN 1 ELSE 0) + BitOr(a, b, k + 1)
\* !x on a u8
BitNot(a) == 255 - a

\* BitMap::new: all false, each row starting on a new byte.
BitMap_new(height, width) ==
    LET stride == (width + 7) \div 8
    IN [data |-> [i \in 0..(height * stride - 1) |-> 0],
        stride |-> stride, width |-> width, height |-> height]

InRange(bm, row, col) == row < bm.height /\ col < bm.width

BitMap_get(bm, row, col) ==
    LET byte_idx == row * bm.stride + col \div 8
        bit_idx == col % 8
    IN BitAnd(bm.data[byte_idx], Shl(bit_idx), 0) # 0

\* A set that takes the bit index for the byte's lowest bit.
BitMap_set_LowBitOnly(bm, row, col, value) ==
    LET byte_idx == row * bm.stride + col \div 8
        byte == bm.data[byte_idx]
    IN [bm EXCEPT !.data[byte_idx] =
            IF value THEN BitOr(byte, Shl(0), 0)
            ELSE BitAnd(byte, BitNot(Shl(0)), 0)]

BitMap_set(bm, row, col, value) ==
    LET byte_idx == row * bm.stride + col \div 8
        bit_idx == col % 8
        byte == bm.data[byte_idx]
    IN [bm EXCEPT !.data[byte_idx] =
            IF value THEN BitOr(byte, Shl(bit_idx), 0)
            ELSE BitAnd(byte, BitNot(Shl(bit_idx)), 0)]

\* A for_each_false that walks every bit of every byte of the row.
RECURSIVE RowFalse_WithPadding(_, _, _, _)
RowFalse_WithPadding(bm, row, byte_col, bit_col) ==
    IF byte_col >= bm.stride THEN <<>>
    ELSE IF bit_col = 8 THEN RowFalse_WithPadding(bm, row, byte_col + 1, 0)
    ELSE LET col == byte_col * 8 + bit_col
             byte == bm.data[row * bm.stride + byte_col]
         IN (IF BitAnd(byte, Shl(bit_col), 0) = 0 THEN <<(<<row, col>>)>> ELSE <<>>)
            \o RowFalse_WithPadding(bm, row, byte_col, bit_col + 1)

\* The bits of one row from (byte_col, bit_col) on; `continue 'rows` at the
\* first column that is not below width.
RECURSIVE RowFalse(_, _, _, _)
RowFalse(bm, row, byte_col, bit_col) ==
    IF byte_col >= bm.stride THEN <<>>
    ELSE IF bit_col = 8 THEN RowFalse(bm, row, byte_col + 1, 0)
    ELSE LET col == byte_col * 8 + bit_col
             byte == bm.data[row * bm.stride + byte_col]
         IN IF col >= bm.width THEN <<>>
            ELSE (IF BitAnd(byte, Shl(bit_col), 0) = 0 THEN <<(<<row, col>>)>> ELSE <<>>)
                 \o RowFalse(bm, row, byte_col, bit_col + 1)

\* BitMap::for_each_false: the (row, col) arguments of the calls of f, in order.
RECURSIVE RowsFalse(_, _)
RowsFalse(bm, row) ==
    IF row >= bm.height THEN <<>>
    ELSE RowFalse(bm, row, 0, 0) \o RowsFalse(bm, row + 1)
BitMap_for_each_false(bm) == RowsFalse(bm, 0)

\* A bitmap fresh from BitMap::new.
BitMapInit ==
    /\ RunIdle
    /\ seeding = None
    /\ split = None
    /\ \E height \in 1..MaxRows, width \in 1..MaxCols :
         bitmap = BitMap_new(height, width)
    /\ geometry = None
    /\ group = None
    /\ getopt = None
    /\ call = [fn |-> "new", sets |-> 0]

\* bitmap.set((row, col), value); an index out of range panics.
BitMapSet ==
    /\ call.sets < MaxSets
    /\ \E row \in 0..bitmap.height, col \in 0..bitmap.width, value \in BOOLEAN :
         IF InRange(bitmap, row, col)
         THEN /\ bitmap' = BitMap_set(bitmap, row, col, value)
              /\ call' = [fn |-> "set", row |-> row, col |-> col, value |-> value,
                          before |-> BitMap_get(bitmap, row, col),
                          sets |-> call.sets + 1]
         ELSE /\ call' = [fn |-> "panic", sets |-> MaxSets]
              /\ UNCHANGED bitmap
    /\ UNCHANGED bitmapRest

\* bitmap.get((row, col)); `follows` is the set call it comes right after.
BitMapGet ==
    /\ call.fn \in {"new", "set"}
    /\ \E row \in 0..(bitmap.height - 1), col \in 0..(bitmap.width - 1) :
         call' = [fn |-> "get", row |-> row, col |-> col,
                  result |-> BitMap_get(bitmap, row, col),
                  follows |-> IF call.fn = "set" THEN Some(call) ELSE None,
                  sets |-> call.sets]
    /\ UNCHANGED <<bitmap, bitmapRest>>

\* bitmap.for_each_false(f) with an f that records its arguments.
BitMapForEachFalse ==
    /\ call.fn \in {"new", "set"}
    /\ call' = [fn |-> "for_each_false", result |-> BitMap_for_each_false(bitmap),
                sets |-> call.sets]
    /\ UNCHANGED <<bitmap, bitmapRest>>

BitMapNext == BitMapSet \/ BitMapGet \/ BitMapForEachFalse

BitMapSpec == BitMapInit /\ [][BitMapNext]_vars

\* C23: a get that comes right after a set of the same (row, col) returns
\* the value that was set.
C23_SetThenGet ==
    call.fn = "get" /\ call.follows.some
        /\ call.follows.value.row = call.row /\ call.follows.value.col = call.col
    => call.result = call.follows.value.value

\* A bit past the first byte of a row whose width is no multiple of 8 was
\* set, cleared again and then read.
C23_Witness ==
    /\ call.fn = "get"
    /\ call.follows.some
    /\ call.follows.value.row = call.row /\ call.follows.value.col = call.col
    /\ bitmap.width % 8 # 0
    /\ call.row = 1 /\ call.col >= 8
    /\ call.follows.value.before /\ ~call.follows.value.value
    /\ ~call.result

\* The cells of a height x width grid in row-major order.
RowMajor(height, width) ==
    [k \in 1..(height * width) |-> <<(k - 1) \div width, (k - 1) % width>>]
IsFalse(cell) == ~BitMap_get(bitmap, cell[1], cell[2])

\* C24: for_each_false calls f once for each (row, col) below (height, width)
\* whose bit is 0, in row-major order, and for nothing else.
C24_ForEachFalseVisitsZeros ==
    call.fn = "for_each_false" =>
        call.result = SelectSeq(RowMajor(bitmap.height, bitmap.width), IsFalse)

\* for_each_false ran on two rows of a width that is no multiple of 8, with
\* one bit set in each row.
C24_Witness ==
    /\ call.fn = "for_each_false"
    /\ bitmap.height = 2
    /\ bitmap.width % 8 # 0
    /\ bitmap.width > 8
    /\ BitMap_get(bitmap, 0, 8) /\ BitMap_get(bitmap, 1, 0)
    /\ Len(call.result) = bitmap.height * bitmap.width - 2

\* ========================================================== geometry
\* usize is modelled UsizeBits wide; the cast of a negative isize wraps.
UsizeBits == 30
AsUsize(v) == v % (2 ^ UsizeBits)
\* i32 to usize: usize::try_from fails on a negative value.
TryFromI32(v) == IF v < 0 THEN None ELSE Some(v)
\* The % of Rust: the remainder has the sign of the dividend.
Rem(a, n) == IF a >= 0 THEN a % n ELSE 0 - ((0 - a) % n)

\* NSWrappingGeometry<NS_WRAP, EW_WRAP>::canonicalize
canonicalize(geo, location) ==
    LET x == IF geo.EW_WRAP THEN Some(AsUsize(Rem(location.x, geo.dimx)))
             ELSE IF TryFromI32(location.x).some /\ location.x < geo.dimx
                  THEN Some(location.x) ELSE None
        y == IF geo.NS_WRAP THEN Some(AsUsize(Rem(location.y, geo.dimy)))
             ELSE IF TryFromI32(location.y).some /\ location.y < geo.dimy
                  THEN Some(location.y) ELSE None
    IN IF x.some /\ y.some THEN Some([x |-> x.value, y |-> y.value]) ELSE None

GeometryInit ==
    /\ RunIdle
    /\ seeding = None
    /\ split = None
    /\ bitmap = None
    /\ group = None
    /\ getopt = None
    /\ geometry \in [NS_WRAP : BOOLEAN, EW_WRAP : BOOLEAN,
                     dimx : 1..MaxDim, dimy : 1..MaxDim]
    /\ call = None

GeometryCanonicalize ==
    /\ \E x \in (0 - MaxCoord)..MaxCoord, y \in (0 - MaxCoord)..MaxCoord :
         call' = Some([location |-> Pixel(x, y),
                       result |-> canonicalize(geometry, Pixel(x, y))])
    /\ UNCHANGED <<geometry, geometryRest>>

GeometryNext == GeometryCanonicalize

GeometrySpec == GeometryInit /\ [][GeometryNext]_vars

\* The mathematical floor-mod.
FloorMod(a, n) == a % n

\* C25: on a wrapped axis canonicalize yields the floor-mod of the
\* coordinate by the axis extent, a value from 0 up to the extent.
C25_WrapIsFloorMod ==
    call.some /\ (geometry.EW_WRAP \/ geometry.NS_WRAP) /\ call.value.result.some =>
        /\ geometry.EW_WRAP =>
              /\ call.value.result.value.x = FloorMod(call.value.location.x, geometry.dimx)
              /\ call.value.result.value.x \in 0..(geometry.dimx - 1)
        /\ geometry.NS_WRAP =>
              /\ call.value.result.value.y = FloorMod(call.value.location.y, geometry.dimy)
              /\ call.value.result.value.y \in 0..(geometry.dimy - 1)

\* ===================================================== colour sampling
\* A VectorSet is modelled by its chance; a VectorSetGroup by the chances
\* of its vector sets (0-based, as the slice) and total_chance.
RECURSIVE SumChances(_, _)
SumChances(chances, i) ==
    IF i >= Len(chances) THEN 0 ELSE chances[i + 1] + SumChances(chances, i + 1)

\* VectorSetGroup::new: Err when the chances sum to zero.
VectorSetGroup_new(chances) ==
    LET total_chance == SumChances(chances, 0)
    IN IF total_chance # 0
       THEN Some([vectorsets |-> chances, total_chance |-> total_chance])
       ELSE None

Unreachable == [unreachable |-> TRUE]
Delegate(i) == [unreachable |-> FALSE, vectorset |-> i]

\* A loop that compares every chance with the undiminished draw.
RECURSIVE PickVectorSet_NoSubtract(_, _, _)
PickVectorSet_NoSubtract(vectorsets, chance, i) ==
    IF i >= Len(vectorsets) THEN Unreachable
    ELSE IF chance < vectorsets[i + 1] THEN Delegate(i)
    ELSE PickVectorSet_NoSubtract(vectorsets, chance, i + 1)

\* The for loop of VectorSetGroup::new_color from vector set i on, with
\* `chance` what is left of the draw.
RECURSIVE PickVectorSet(_, _, _)
PickVectorSet(vectorsets, chance, i) ==
    IF i >= Len(vectorsets) THEN Unreachable
    ELSE IF chance < vectorsets[i + 1] THEN Delegate(i)
    ELSE PickVectorSet(vectorsets, chance - vectorsets[i + 1], i + 1)

\* The draws rng.gen_range(0..total_chance) can return.
Draws(g) == 0..(g.total_chance - 1)

GroupInit ==
    /\ RunIdle
    /\ seeding = None
    /\ split = None
    /\ bitmap = None
    /\ geometry = None
    /\ getopt = None
    /\ \E n \in 1..MaxVectorSets :
         \E chances \in [1..n -> 1..MaxChance] :
           group = VectorSetGroup_new(chances).value
    /\ call = None

\* group.new_color(rng): which vector set the call delegates to.  A group
\* of one delegates without a draw.
GroupNewColor ==
    /\ IF Len(group.vectorsets) = 1
       THEN call' = Some([draw |-> None, result |-> Delegate(0)])
       ELSE \E k \in Draws(group) :
              call' = Some([draw |-> Some(k),
                            result |-> PickVectorSet(group.vectorsets, k, 0)])
    /\ UNCHANGED <<group, groupRest>>

GroupNext == GroupNewColor

GroupSpec == GroupInit /\ [][GroupNext]_vars

\* chance_0 + ... + chance_i
Cumulative(g, i) == SumChances(SubSeq(g.vectorsets, 1, i + 1), 0)
\* The first vector set whose cumulative chance exceeds k.
FirstExceeding(g, k) ==
    CHOOSE i \in 0..(Len(g.vectorsets) - 1) :
        /\ Cumulative(g, i) > k
        /\ \A h \in 0..(i - 1) : Cumulative(g, h) <= k

\* C26: a draw k below total_chance is delegated to the first vector set
\* whose cumulative chance exceeds k, never to the unreachable! branch, and
\* vector set i is the choice for exactly chance_i of the draws.
C26_SamplingByCumulativeChance ==
    /\ call.some /\ call.value.draw.some =>
          /\ ~call.value.result.unreachable
          /\ call.value.result.vectorset = FirstExceeding(group, call.value.draw.value)
    /\ Len(group.vectorsets) > 1 =>
          \A i \in 0..(Len(group.vectorsets) - 1) :
             Cardinality({k \in Draws(group) :
                            PickVectorSet(group.vectorsets, k, 0) = Delegate(i)})
                = group.vectorsets[i + 1]

\* The last of three vector sets of unequal chances was drawn.
C26_Witness ==
    /\ call.some /\ call.value.draw.some
    /\ Len(group.vectorsets) = 3
    /\ group.vectorsets[1] # group.vectorsets[2]
    /\ call.value.result = Delegate(2)
    /\ call.value.draw.value = group.total_chance - 1

\* =============================================== output after finished
\* C27: a text or file progressor that has left its loop has called its
\* callback, or written the image, exactly once since finished was set.
C27_OneOutputAfterFinished ==
    \A j \in Progs :
       progressors[j] \in {"text", "file"} /\ ppc[j] = "done" => final_outputs[j] = 1

\* ============================================================ getopt
\* A &str is a sequence of one-character strings.
starts_with(s, prefix) == Len(s) >= Len(prefix) /\ SubSeq(s, 1, Len(prefix)) = prefix
\* &s[n..]
Skip(s, n) == SubSeq(s, n + 1, Len(s))
\* s.find(c): the 0-based index of the first c
find(s, c) ==
    IF \E i \in 1..Len(s) : s[i] = c
    THEN Some((CHOOSE i \in 1..Len(s) : s[i] = c /\ \A h \in 1..(i - 1) : s[h] # c) - 1)
    ELSE None

Opt_short_long(short, long, arg) ==
    [short |-> Some(short), long |-> Some(long), has_argument |-> arg]
Opt_long(long, arg) == [short |-> None, long |-> Some(long), has_argument |-> arg]

\* GetoptItem and GetoptError
GetoptItem_Opt(opt, arg) == [kind |-> "Opt", opt |-> opt, arg |-> arg]
GetoptItem_NonOpt(text) == [kind |-> "NonOpt", text |-> text]
UnrecognizedShortOpt(c, arg) == [kind |-> "UnrecognizedShortOpt", c |-> c, arg |-> arg]
UnrecognizedLongOpt(name, arg) == [kind |-> "UnrecognizedLongOpt", name |-> name, arg |-> arg]

\* self.opts.iter().find(..): the first option of that short or long name
FirstOf(opts, found) ==
    IF found = {} THEN None
    ELSE Some(opts[CHOOSE i \in found : \A h \in found : i <= h])
FindShort(opts, c) == FirstOf(opts, {i \in 1..Len(opts) : opts[i].short = Some(c)})
FindLong(opts, name) == FirstOf(opts, {i \in 1..Len(opts) : opts[i].long = Some(name)})

\* Getopt::parse
Getopt_parse(options, args) ==
    [opts |-> options, args |-> args, backlog |-> <<>>, found_dash_dash |-> FALSE]

\* An option with a required argument that leaves a dashed parameter alone.
TakeNext_SkipsDashed(args, r_opt, missing) ==
    IF args # <<>> /\ ~starts_with(Head(args), <<"-">>)
    THEN [args |-> Tail(args), item |-> GetoptItem_Opt(r_opt, Some(Head(args)))]
    ELSE [args |-> args, item |-> missing]

\* (HasArgument::Yes, no inline argument): match self.args.next()
TakeNext(args, r_opt, missing) ==
    IF args # <<>>
    THEN [args |-> Tail(args), item |-> GetoptItem_Opt(r_opt, Some(Head(args)))]
    ELSE [args |-> args, item |-> missing]

\* An option with an optional argument that takes whatever comes next.
PeekNext_TakesAny(args, r_opt) ==
    IF args # <<>>
    THEN [args |-> Tail(args), item |-> GetoptItem_Opt(r_opt, Some(Head(args)))]
    ELSE [args |-> args, item |-> GetoptItem_Opt(r_opt, None)]

\* (HasArgument::Optional, no inline argument): match self.args.peek()
PeekNext(args, r_opt) ==
    IF args # <<>> /\ ~starts_with(Head(args), <<"-">>)
    THEN [args |-> Tail(args), item |-> GetoptItem_Opt(r_opt, Some(Head(args)))]
    ELSE [args |-> args, item |-> GetoptItem_Opt(r_opt, None)]

push_back(self, item) == [self EXCEPT !.backlog = Append(@, item)]
Taken(self, taken) == [self EXCEPT !.args = taken.args, !.backlog = Append(@, taken.item)]

\* The loop over the characters of a short cluster; `chars` is what is left
\* of the parameter (opt.as_str()).
RECURSIVE ShortLoop(_, _)
ShortLoop(self, chars) ==
    IF chars = <<>> THEN self
    ELSE LET c_opt == Head(chars)
             arg == Tail(chars)
             r_opt == FindShort(self.opts, c_opt)
         IN IF ~r_opt.some
            THEN IF starts_with(arg, <<"=">>)
                 THEN push_back(self, UnrecognizedShortOpt(c_opt, Some(Skip(arg, 1))))
                 ELSE ShortLoop(push_back(self, UnrecognizedShortOpt(c_opt, None)), arg)
            ELSE IF r_opt.value.has_argument = "No"
            THEN IF starts_with(arg, <<"=">>)
                 THEN push_back(self, UnrecognizedShortOpt(c_opt, Some(Skip(arg, 1))))
                 ELSE ShortLoop(push_back(self, GetoptItem_Opt(r_opt.value, None)), arg)
            ELSE IF Len(arg) = 0
            THEN IF r_opt.value.has_argument = "Yes"
                 THEN Taken(self, TakeNext(self.args, r_opt.value,
                                           UnrecognizedShortOpt(c_opt, None)))
                 ELSE Taken(self, PeekNext(self.args, r_opt.value))
            ELSE IF starts_with(arg, <<"=">>)
            THEN push_back(self, GetoptItem_Opt(r_opt.value, Some(Skip(arg, 1))))
            ELSE push_back(self, GetoptItem_Opt(r_opt.value, Some(arg)))

\* A "--name" or "--name=arg" parameter; `self` has it consumed already.
LongOpt(self, param) ==
    LET text == Skip(param, 2)
        eq == find(text, "=")
        opt == IF eq.some THEN SubSeq(text, 1, eq.value) ELSE text
        arg == IF eq.some THEN Some(Skip(text, eq.value + 1)) ELSE None
        r_opt == FindLong(self.opts, opt)
    IN IF ~r_opt.some
       THEN [self |-> self, item |-> Some(UnrecognizedLongOpt(opt, arg))]
       ELSE IF arg.some
       THEN [self |-> self,
             item |-> Some(IF r_opt.value.has_argument = "No"
                           THEN UnrecognizedLongOpt(opt, arg)
                           ELSE GetoptItem_Opt(r_opt.value, arg))]
       ELSE IF r_opt.value.has_argument = "No"
       THEN [self |-> self, item |-> Some(GetoptItem_Opt(r_opt.value, None))]
       ELSE LET taken == IF r_opt.value.has_argument = "Yes"
                         THEN TakeNext(self.args, r_opt.value, UnrecognizedLongOpt(opt, arg))
                         ELSE PeekNext(self.args, r_opt.value)
            IN [self |-> [self EXCEPT !.args = taken.args], item |-> Some(taken.item)]

\* Some(Ok(NonOpt(self.args.next()?)))
NextNonOpt(self) ==
    IF self.args = <<>> THEN [self |-> self, item |-> None]
    ELSE [self |-> [self EXCEPT !.args = Tail(@)],
          item |-> Some(GetoptItem_NonOpt(Head(self.args)))]

\* self.backlog.pop_front()
pop_front(self) ==
    [self |-> [self EXCEPT !.backlog = Tail(@)], item |-> Some(Head(self.backlog))]

\* GetoptIter::next: the iterator afterwards and the item returned.
RECURSIVE next(_)
next(self) ==
    IF self.backlog # <<>> THEN pop_front(self)
    ELSE IF self.found_dash_dash THEN NextNonOpt(self)
    ELSE IF self.args = <<>> THEN [self |-> self, item |-> None]
    ELSE LET opt == Head(self.args)
             rest == [self EXCEPT !.args = Tail(@)]
         IN IF opt = <<"-", "-">>
            THEN NextNonOpt([rest EXCEPT !.found_dash_dash = TRUE])
            ELSE IF starts_with(opt, <<"-", "-">>) THEN LongOpt(rest, opt)
            ELSE IF starts_with(opt, <<"-">>) THEN next(ShortLoop(rest, Skip(opt, 1)))
            ELSE [self |-> rest, item |-> Some(GetoptItem_NonOpt(opt))]

\* The options of the crate's tests: a takes no argument, b requires one,
\* c takes an optional one; each has a short and a long name.
TestOptions ==
    <<Opt_short_long("a", <<"a">>, "No"), Opt_short_long("b", <<"b">>, "Yes"),
      Opt_short_long("c", <<"c">>, "Optional")>>

\* Command-line parameters: short clusters, long options, "--", "-", a
\* plain word and the empty string.
ParamChoices ==
    {<<"-", "a">>, <<"-", "b">>, <<"-", "c">>, <<"-", "v">>,
     <<"-", "a", "b">>, <<"-", "a", "c">>, <<"-", "b", "a">>, <<"-", "b", "v">>,
     <<"-", "c", "v">>, <<"-", "v", "a">>, <<"-", "v", "b">>, <<"-", "a", "=">>,
     <<"-", "b", "=">>, <<"-", "c", "=">>, <<"-", "a", "b", "c">>, <<"-", "a", "a", "b">>,
     <<"-", "b", "=", "v">>, <<"-", "c", "=", "v">>, <<"-", "a", "=", "v">>, <<"-", "v", "=", "v">>,
     <<"-", "b", "=", "-">>, <<"-", "-", "a">>, <<"-", "-", "b">>, <<"-", "-", "c">>,
     <<"-", "-", "v">>, <<"-", "-", "a", "=", "v">>, <<"-", "-", "b", "=", "v">>, <<"-", "-", "c", "=", "v">>,
     <<"-", "-", "b", "=">>, <<"-", "-", "b", "=", "=">>, <<"-", "-", "b", "=", "-">>, <<"-", "-">>,
     <<"-">>, <<"v">>, <<>>}

ArgLists(choices, n) == UNION {[1..k -> choices] : k \in 0..n}

GetoptInit ==
    /\ RunIdle
    /\ seeding = None
    /\ split = None
    /\ bitmap = None
    /\ geometry = None
    /\ group = None
    /\ \E args \in ArgLists(ParamChoices, MaxParams) :
         /\ getopt = Getopt_parse(TestOptions, args)
         /\ call = [params |-> args, collected |-> <<>>, done |-> FALSE]

\* One call of the iterator's next(); what it returns is collected.
GetoptNext ==
    /\ ~call.done
    /\ LET r == next(getopt)
       IN /\ getopt' = r.self
          /\ call' = IF r.item.some
                     THEN [call EXCEPT !.collected = Append(@, r.item.value)]
                     ELSE [call EXCEPT !.done = TRUE]
    /\ UNCHANGED getoptRest

GetoptSpec == GetoptInit /\ [][GetoptNext]_vars

\* The options of a table.
Options(opts) == {opts[i] : i \in 1..Len(opts)}
\* A call of next() that starts on a new parameter.
Parsing ==
    /\ ~call.done
    /\ getopt.backlog = <<>>
    /\ ~getopt.found_dash_dash
    /\ getopt.args # <<>>
\* What the parameter just parsed gave: the item returned and the backlog.
Yielded == <<call'.collected[Len(call'.collected)]>> \o getopt'.backlog
\* The characters of a short cluster before position i are options without
\* argument or unknown characters, none followed by '='.
Reaches(opts, cluster, i) ==
    \A h \in 1..(i - 1) :
        /\ \A o \in Options(opts) : o.short = Some(cluster[h]) => o.has_argument = "No"
        /\ cluster[h + 1] # "="
IsShortCluster(param) == starts_with(param, <<"-">>) /\ ~starts_with(param, <<"-", "-">>)
IsLongOpt(param) == starts_with(param, <<"-", "-">>) /\ param # <<"-", "-">>
\* The name of a long parameter: the text before the first '='.
LongName(param) ==
    LET text == Skip(param, 2)
    IN IF \E k \in 1..Len(text) : text[k] = "="
       THEN SubSeq(text, 1, (CHOOSE k \in 1..Len(text) :
                               text[k] = "=" /\ \A h \in 1..(k - 1) : text[h] # "=") - 1)
       ELSE text
HasInline(param) == Len(LongName(param)) < Len(param) - 2
LongInline(param) == Skip(param, 2 + Len(LongName(param)) + 1)

C28_Short ==
    Parsing =>
    \A o \in Options(getopt.opts) : \A i \in 1..Len(Head(getopt.args)) - 1 :
        LET cluster == Skip(Head(getopt.args), 1)
            inline == Skip(cluster, i)
        IN  /\ IsShortCluster(Head(getopt.args))
            /\ o.has_argument = "Yes"
            /\ o.short = Some(cluster[i])
            /\ Reaches(getopt.opts, cluster, i)
            => /\ Len(Yielded) = i
               /\ Yielded[i] =
                    IF inline # <<>>
                    THEN GetoptItem_Opt(o, Some(IF Head(inline) = "=" THEN Tail(inline)
                                                ELSE inline))
                    ELSE IF Len(getopt.args) >= 2
                    THEN GetoptItem_Opt(o, Some(getopt.args[2]))
                    ELSE UnrecognizedShortOpt(cluster[i], None)
               /\ getopt'.args = IF inline = <<>> /\ Len(getopt.args) >= 2
                                 THEN Skip(getopt.args, 2) ELSE Tail(getopt.args)
C28_Long ==
    Parsing =>
    \A o \in Options(getopt.opts) :
        LET param == Head(getopt.args)
        IN  /\ IsLongOpt(param)
            /\ o.has_argument = "Yes"
            /\ o.long = Some(LongName(param))
            => /\ Yielded =
                    <<IF HasInline(param) THEN GetoptItem_Opt(o, Some(LongInline(param)))
                      ELSE IF Len(getopt.args) >= 2
                      THEN GetoptItem_Opt(o, Some(getopt.args[2]))
                      ELSE UnrecognizedLongOpt(LongName(param), None)>>
               /\ getopt'.args = IF ~HasInline(param) /\ Len(getopt.args) >= 2
                                 THEN Skip(getopt.args, 2) ELSE Tail(getopt.args)
\* C28: an option declared HasArgument::Yes takes the inline text as its
\* argument (short: the rest of the parameter with one leading '=' removed;
\* long: the text after the first '='); without inline text it consumes the
\* next parameter whatever it starts with; with no parameter left it yields
\* UnrecognizedShortOpt / UnrecognizedLongOpt with arg None.
C28_RequiredArgument == [][C28_Short /\ C28_Long]_vars
\* b has taken the dashed parameter after it, and nothing else was yielded.
C28_Witness ==
    /\ getopt # None
    /\ call.done
    /\ Len(call.params) = 2
    /\ call.params[1] \in {<<"-", "b">>, <<"-", "-", "b">>}
    /\ starts_with(call.params[2], <<"-">>)
    /\ call.collected = <<GetoptItem_Opt(TestOptions[2], Some(call.params[2]))>>

C29_Short ==
    Parsing =>
    \A o \in Options(getopt.opts) :
        LET cluster == Skip(Head(getopt.args), 1)
            i == Len(cluster)
            taken == Len(getopt.args) >= 2 /\ (getopt.args[2] = <<>> \/ getopt.args[2][1] # "-")
        IN  /\ IsShortCluster(Head(getopt.args))
            /\ i >= 1
            /\ o.has_argument = "Optional"
            /\ o.short = Some(cluster[i])
            /\ Reaches(getopt.opts, cluster, i)
            => /\ Len(Yielded) = i
               /\ Yielded[i] = GetoptItem_Opt(o, IF taken THEN Some(getopt.args[2]) ELSE None)
               /\ getopt'.args = IF taken THEN Skip(getopt.args, 2) ELSE Tail(getopt.args)
C29_Long ==
    Parsing =>
    \A o \in Options(getopt.opts) :
        LET param == Head(getopt.args)
            taken == Len(getopt.args) >= 2 /\ (getopt.args[2] = <<>> \/ getopt.args[2][1] # "-")
        IN  /\ IsLongOpt(param)
            /\ o.has_argument = "Optional"
            /\ o.long = Some(LongName(param))
            /\ ~HasInline(param)
            => /\ Yielded = <<GetoptItem_Opt(o, IF taken THEN Some(getopt.args[2]) ELSE None)>>
               /\ getopt'.args = IF taken THEN Skip(getopt.args, 2) ELSE Tail(getopt.args)
\* The item is the one of short option character c.
ItemOf(item, c) ==
    \/ item.kind = "Opt" /\ item.opt.short = Some(c)
    \/ item.kind = "UnrecognizedShortOpt" /\ item.c = c
\* A lone cluster whose characters before the last take no argument has given,
\* when the iterator is exhausted, one item per character in input order.
C29_ClusterOrder ==
    /\ call.done
    /\ Len(call.params) = 1
    /\ IsShortCluster(call.params[1])
    /\ Reaches(TestOptions, Skip(call.params[1], 1), Len(call.params[1]) - 1)
    => /\ Len(call.collected) = Len(call.params[1]) - 1
       /\ \A h \in 1..Len(call.collected) :
            ItemOf(call.collected[h], call.params[1][h + 1])
\* C29: an option declared HasArgument::Optional with no inline argument takes
\* the next parameter as its argument exactly when there is one and it does
\* not start with '-'; otherwise it is yielded with arg None and the next
\* parameter stays to be parsed on its own; the options of one short cluster
\* are yielded one item per character in input order.
C29_OptionalArgument == [][C29_Short /\ C29_Long]_vars /\ []C29_ClusterOrder
\* c at the end of a cluster left the dashed parameter after it alone: it was
\* yielded with arg None after a, and the next parameter gave items of its own.
C29_Witness ==
    /\ getopt # None
    /\ call.done
    /\ Len(call.params) = 2
    /\ call.params[1] = <<"-", "a", "c">>
    /\ starts_with(call.params[2], <<"-">>)
    /\ Len(call.collected) >= 3
    /\ call.collected[1] = GetoptItem_Opt(TestOptions[1], None)
    /\ call.collected[2] = GetoptItem_Opt(TestOptions[3], None)

\* ================================================= generator options
NORMAL_OFFSETS ==
    <<Offset(-1, -1), Offset(-1, 0), Offset(-1, 1), Offset(0, -1),
      Offset(0, 1), Offset(1, -1), Offset(1, 0), Offset(1, 1)>>
DIAGONAL_OFFSETS == <<Offset(-1, -1), Offset(-1, 1), Offset(1, -1), Offset(1, 1)>>
KNIGHT_OFFSETS ==
    <<Offset(-2, -1), Offset(-1, -2), Offset(-2, 1), Offset(-1, 2),
      Offset(2, -1), Offset(1, -2), Offset(2, 1), Offset(1, 2)>>

\* generate::opts()
generate_opts ==
    <<Opt_short_long("e", <<"s", "e", "e", "d", "s">>, "Yes"),
      Opt_short_long("O", <<"o", "f", "f", "s", "e", "t", "s">>, "Yes"),
      Opt_short_long("w", <<"w", "o", "r", "k", "e", "r", "s">>, "Yes"),
      Opt_short_long("C", <<"c", "o", "l", "o", "r", "c", "o", "u", "n", "t">>, "Yes"),
      Opt_long(<<"m", "a", "x", "f", "i", "t", "n", "e", "s", "s">>, "Yes"),
      Opt_long(<<"o", "u", "t", "e", "r">>, "No")>>

\* [0-9] and the number a digit stands for
Digits == <<"0", "1", "2", "3", "4", "5", "6", "7", "8", "9">>
IsDigit(c) == \E d \in 1..Len(Digits) : Digits[d] = c
DigitValue(c) == (CHOOSE d \in 1..Len(Digits) : Digits[d] = c) - 1
\* [0-9]+ read as a decimal number (the literals here have few digits)
IsDecimal(s) == s # <<>> /\ \A i \in 1..Len(s) : IsDigit(s[i])
RECURSIVE Decimal(_)
Decimal(s) == IF s = <<>> THEN 0 ELSE 10 * Decimal(SubSeq(s, 1, Len(s) - 1)) + DigitValue(s[Len(s)])
\* str::parse::<NonZeroUsize>: digits after an optional '+', not zero
ParseNonZero(s) ==
    LET digits == IF starts_with(s, <<"+">>) THEN Tail(s) ELSE s
    IN IF IsDecimal(digits) /\ Decimal(digits) # 0 THEN Some(Decimal(digits)) ELSE None
\* str::parse::<Channel>, for the spellings made of digits only
ParseChannel(s) == IF IsDecimal(s) THEN Some(Decimal(s)) ELSE None
\* -?[0-9]+ and its value as an i32
IsSignedDecimal(s) == IsDecimal(IF starts_with(s, <<"-">>) THEN Tail(s) ELSE s)
SignedDecimal(s) == IF starts_with(s, <<"-">>) THEN 0 - Decimal(Tail(s)) ELSE Decimal(s)
\* OFFSET_REGEX.captures(offset): the two captured numbers
OFFSET_REGEX(s) ==
    IF \E k \in 1..Len(s) :
          s[k] = "," /\ IsSignedDecimal(SubSeq(s, 1, k - 1)) /\ IsSignedDecimal(Skip(s, k))
    THEN LET k == CHOOSE k \in 1..Len(s) : s[k] = ","
         IN Some(Offset(SignedDecimal(SubSeq(s, 1, k - 1)), SignedDecimal(Skip(s, k))))
    ELSE None

\* GeneratorSettings::default(), with a mark for a panic
GeneratorSettings ==
    [seeds |-> None, offsets |-> None, workers |-> None, colorcount |-> None,
     maxfitness |-> None, outer |-> None, panicked |-> FALSE]
Panic(settings) == [settings EXCEPT !.panicked = TRUE]
\* set!($field)
set(settings, field, parsed) ==
    IF ~parsed.some \/ settings[field].some THEN Panic(settings)
    ELSE [settings EXCEPT ![field] = parsed]

\* Offsets that replace what earlier options gave.
add_offsets_Replace(settings, slice) == [settings EXCEPT !.offsets = Some(slice)]

\* add_offsets!($offsets)
add_offsets(settings, slice) ==
    [settings EXCEPT !.offsets = IF @.some THEN Some(@.value \o slice) ELSE Some(slice)]

\* One turn of `for opt in opts`
HandleItem(settings, item) ==
    IF settings.panicked \/ item.kind # "Opt" THEN settings
    ELSE IF item.arg.some /\ item.opt.long = Some(<<"s", "e", "e", "d", "s">>)
    THEN set(settings, "seeds", ParseNonZero(item.arg.value))
    ELSE IF item.arg.some /\ item.opt.long = Some(<<"o", "f", "f", "s", "e", "t", "s">>)
    THEN IF item.arg.value = <<"n">> THEN add_offsets(settings, NORMAL_OFFSETS)
         ELSE IF item.arg.value = <<"o">> THEN add_offsets(settings, ORTHOGONAL_OFFSETS)
         ELSE IF item.arg.value = <<"d">> THEN add_offsets(settings, DIAGONAL_OFFSETS)
         ELSE IF item.arg.value = <<"k">> THEN add_offsets(settings, KNIGHT_OFFSETS)
         ELSE IF OFFSET_REGEX(item.arg.value).some
         THEN add_offsets(settings, <<OFFSET_REGEX(item.arg.value).value>>)
         ELSE Panic(settings)
    ELSE IF item.arg.some /\ item.opt.long = Some(<<"w", "o", "r", "k", "e", "r", "s">>)
    THEN set(settings, "workers", ParseNonZero(item.arg.value))
    ELSE IF item.arg.some /\ item.opt.long = Some(<<"c", "o", "l", "o", "r", "c", "o", "u", "n", "t">>)
    THEN set(settings, "colorcount", ParseNonZero(item.arg.value))
    ELSE IF item.arg.some /\ item.opt.long = Some(<<"m", "a", "x", "f", "i", "t", "n", "e", "s", "s">>)
    THEN set(settings, "maxfitness", ParseChannel(item.arg.value))
    ELSE IF ~item.arg.some /\ item.opt.long = Some(<<"o", "u", "t", "e", "r">>)
    THEN Panic(settings)
    ELSE settings
RECURSIVE HandleItems(_, _)
HandleItems(settings, items) ==
    IF items = <<>> THEN settings
    ELSE HandleItems(HandleItem(settings, Head(items)), Tail(items))
\* generate::handle_opts: the generator built, or a panic on the way
handle_opts(items) ==
    LET settings == HandleItems(GeneratorSettings, items)
    IN IF settings.panicked THEN [panicked |-> TRUE, offsets |-> <<>>]
       ELSE [panicked |-> FALSE,
             offsets |-> IF settings.offsets.some THEN settings.offsets.value
                         ELSE NORMAL_OFFSETS]

\* Parameters for the generator: -O in its spellings, arguments for it, a
\* parameter of another option, an argument that denotes nothing, "--".
OffsetParamChoices ==
    {<<"-", "O", "n">>, <<"-", "O", "o">>, <<"-", "O", "d">>,
     <<"-", "O", "k">>, <<"-", "O">>, <<"n">>,
     <<"k">>, <<"-", "O", "3", ",", "3">>, <<"-", "O", "-", "3", ",", "-", "3">>,
     <<"-", "3", ",", "-", "3">>, <<"-", "-", "o", "f", "f", "s", "e", "t", "s", "=", "d">>, <<"-", "O", "=", "k">>,
     <<"-", "w", "2">>, <<"-", "O", "x">>, <<"-", "-">>}

OffsetsInit ==
    /\ RunIdle
    /\ seeding = None
    /\ split = None
    /\ bitmap = None
    /\ geometry = None
    /\ group = None
    /\ \E args \in ArgLists(OffsetParamChoices, MaxOffsetParams) :
         /\ getopt = Getopt_parse(generate_opts, args)
         /\ call = [params |-> args, collected |-> <<>>, done |-> FALSE, generator |-> None]

IsErr(item) == item.kind \in {"UnrecognizedShortOpt", "UnrecognizedLongOpt"}
\* collect::<Result<Vec<_>, _>>().unwrap(): one item more, the end of the
\* parameters, or the panic at the first error.
CollectNext ==
    /\ ~call.done
    /\ LET r == next(getopt)
       IN /\ getopt' = r.self
          /\ call' = IF ~r.item.some THEN [call EXCEPT !.done = TRUE]
                     ELSE IF IsErr(r.item.value)
                     THEN [call EXCEPT !.done = TRUE,
                                       !.generator = Some([panicked |-> TRUE, offsets |-> <<>>])]
                     ELSE [call EXCEPT !.collected = Append(@, r.item.value)]
    /\ UNCHANGED getoptRest

HandleOpts ==
    /\ call.done
    /\ call.generator = None
    /\ call' = [call EXCEPT !.generator = Some(handle_opts(call.collected))]
    /\ UNCHANGED <<getopt, getoptRest>>

OffsetsNext == CollectNext \/ HandleOpts
OffsetsSpec == OffsetsInit /\ [][OffsetsNext]_vars

\* The arguments of the -O/--offsets options among the items, in order.
RECURSIVE OffsetArgs(_)
OffsetArgs(items) ==
    IF items = <<>> THEN <<>>
    ELSE LET item == Head(items)
         IN (IF item.kind = "Opt" /\ item.opt.short = Some("O") /\ item.arg.some
             THEN <<item.arg.value>> ELSE <<>>) \o OffsetArgs(Tail(items))
\* A one-digit number and a pair of them as they are written.
Show(n) == IF n < 0 THEN <<"-", Digits[1 - n]>> ELSE <<Digits[n + 1]>>
Literal(o) == Show(o.dx) \o <<",">> \o Show(o.dy)
OneDigit == {d - Len(Digits) : d \in 1..(2 * Len(Digits) - 1)}
\* What an argument denotes: a preset, or the pair it spells.
Denotes(arg) ==
    IF arg = <<"n">> THEN NORMAL_OFFSETS
    ELSE IF arg = <<"o">> THEN ORTHOGONAL_OFFSETS
    ELSE IF arg = <<"d">> THEN DIAGONAL_OFFSETS
    ELSE IF arg = <<"k">> THEN KNIGHT_OFFSETS
    ELSE <<CHOOSE o \in {Offset(dx, dy) : dx \in OneDigit, dy \in OneDigit} : Literal(o) = arg>>
RECURSIVE Concatenation(_)
Concatenation(args) ==
    IF args = <<>> THEN <<>> ELSE Denotes(Head(args)) \o Concatenation(Tail(args))
Abs(n) == IF n < 0 THEN 0 - n ELSE n
\* The presets are the neighbourhoods of their names, each offset once.
Distinct(list) == \A i, k \in 1..Len(list) : list[i] = list[k] => i = k
Among(list, members) ==
    /\ Distinct(list)
    /\ {list[i] : i \in 1..Len(list)} = members
Around == {Offset(dx, dy) : dx \in -2..2, dy \in -2..2}
PresetsAreNeighbourhoods ==
    /\ Among(NORMAL_OFFSETS,
             {o \in Around : Abs(o.dx) <= 1 /\ Abs(o.dy) <= 1 /\ o # Offset(0, 0)})
    /\ Among(ORTHOGONAL_OFFSETS, {o \in Around : Abs(o.dx) + Abs(o.dy) = 1})
    /\ Among(DIAGONAL_OFFSETS, {o \in Around : Abs(o.dx) = 1 /\ Abs(o.dy) = 1})
    /\ Among(KNIGHT_OFFSETS, {o \in Around : {Abs(o.dx), Abs(o.dy)} = {1, 2}})
\* C30: the generator's offset list is the 8-neighbourhood when no
\* -O/--offsets option is given; otherwise it is the concatenation, in
\* command-line order, of what each -O argument denotes (preset n, o, d, k or
\* a literal dx,dy pair, negative values allowed), with nothing else added.
C30_OffsetList ==
    /\ call.generator.some
    /\ ~call.generator.value.panicked
    => /\ PresetsAreNeighbourhoods
       /\ call.generator.value.offsets =
            IF OffsetArgs(call.collected) = <<>> THEN NORMAL_OFFSETS
            ELSE Concatenation(OffsetArgs(call.collected))
       /\ (\A i \in 1..Len(call.params) :
              call.params[i] \in {<<"-", "O", "n">>, <<"-", "O", "-", "3", ",", "-", "3">>})
          => OffsetArgs(call.collected) = [i \in 1..Len(call.params) |-> Skip(call.params[i], 2)]
\* -O n -O-3,-3 has given the 8-neighbourhood followed by (-3, -3).
C30_Witness ==
    /\ getopt # None
    /\ call.params = <<<<"-", "O">>, <<"n">>, <<"-", "O", "-", "3", ",", "-", "3">>>>
    /\ call.generator = Some([panicked |-> FALSE,
                              offsets |-> NORMAL_OFFSETS \o <<Offset(-3, -3)>>])

\* ============================================== place_seeds_common
\* A place_seeds_common call followed try by try.  `streak` is a history
\* variable: the failed tries of the seed in hand.
SeedCall(x, y, count, mask) ==
    [dimx |-> x, dimy |-> y, count |-> count, placed_pixels |-> mask,
     placed |-> <<>>, failures |-> 0, successes |-> 0, streak |-> 0,
     pc |-> IF count = 0 THEN "after" ELSE "retry"]
\* The first call of a run asks for `seeds` pixels on an empty mask; a
\* re-seed asks for one pixel on a mask that is neither empty nor full.
SeedInit ==
    /\ RunIdle
    /\ bitmap = None
    /\ geometry = None
    /\ group = None
    /\ getopt = None
    /\ split = None
    /\ call = None
    /\ \E x \in 1..MaxDim, y \in 1..MaxDim :
         /\ x * y <= MaxSize
         /\ \E mask \in [(0..(y - 1)) \X (0..(x - 1)) -> BOOLEAN] :
              \E count \in 1..MaxSeedCount :
                /\ \/ \A c \in DOMAIN mask : ~mask[c]
                   \/ /\ count = 1
                      /\ \E c \in DOMAIN mask : ~mask[c]
                /\ seeding = SeedCall(x, y, count, mask)

\* One turn of 'retry: a drawn cell that is placed is a failure, and
\* SeedFailureLimit failures end the whole loop; a free cell takes the seed.
SeedTry ==
    /\ seeding.pc = "retry"
    /\ \E c \in DOMAIN seeding.placed_pixels :
         seeding' =
           IF seeding.placed_pixels[c]
           THEN [seeding EXCEPT !.failures = @ + 1, !.streak = @ + 1,
                                !.pc = IF seeding.failures + 1 >= SeedFailureLimit
                                       THEN "after" ELSE "retry"]
           ELSE [seeding EXCEPT !.placed_pixels[c] = TRUE,
                                !.placed = Append(@, c),
                                !.successes = @ + 1,
                                !.streak = 0,
                                !.pc = IF seeding.successes + 1 = seeding.count
                                       THEN "after" ELSE "retry"]
    /\ UNCHANGED seedingRest

\* After the loop: with seeds missing, they are drawn from the unplaced
\* cells in row-major order.
SeedFallback ==
    /\ seeding.pc = "after"
    /\ IF seeding.successes < seeding.count
       THEN \E more \in choose_multiple(
                          SelectSeq([k \in 1..(seeding.dimy * seeding.dimx) |->
                                       <<(k - 1) \div seeding.dimx, (k - 1) % seeding.dimx>>],
                                    LAMBDA c : ~seeding.placed_pixels[c]),
                          seeding.count - seeding.successes) :
              seeding' = [seeding EXCEPT
                            !.placed_pixels = MarkAll(@, more),
                            !.placed = @ \o more,
                            !.successes = @ + Len(more),
                            !.pc = "fallback_done"]
       ELSE seeding' = [seeding EXCEPT !.pc = "done"]
    /\ UNCHANGED seedingRest

SeedNext == SeedTry \/ SeedFallback
SeedSpec == SeedInit /\ [][SeedNext]_vars

\* C32: the random strategy is abandoned for the fallback only when the seed
\* in hand has itself failed SeedFailureLimit tries in a row; failures of
\* seeds placed before do not count.
C32_AbandonedByOneSeed ==
    seeding.pc = "after" /\ seeding.successes < seeding.count
    => seeding.streak >= SeedFailureLimit

\* ------------------------------------------------------------ reseeding
\* The generator leaves the top of its loop.
LeavesLoopTop == gpc = "loop" /\ gpc' # "loop"
\* The re-seed block ends.
ReseedEnds == gpc = "reseed_commit" /\ gpc' # "reseed_commit"
GenAtBarrierA == gpc \in {"arriveA", "blockedA"}
C33_Reseed ==
    /\ LeavesLoopTop =>
         IF Len(edges) = 0
         THEN gpc' = "reseed_commit" /\ Len(seed_locations') = 1
         ELSE gpc' = "arriveA" /\ UNCHANGED <<lockedVars, pixels_placed>>
    /\ ReseedEnds => gpc' = "arriveA" /\ Len(edges') = 1
\* C33: at the top of its loop the generator re-seeds exactly when the
\* frontier is empty, one pixel and once before it goes on to barrier A, and
\* leaves the locked data alone otherwise; so the frontier is non-empty at
\* every rendezvous A.
C33_ReseedOncePerEmptying ==
    [][C33_Reseed]_vars /\ [](GenAtBarrierA => Len(edges) > 0)
\* The frontier ran empty mid-run and the re-seed has put one pixel in it.
C33_Witness ==
    /\ gpc = "arriveA"
    /\ ~finished
    /\ steps > 0
    /\ revalidated = FALSE
    /\ Len(edges) = 1
    /\ pixels_placed > 1
    /\ step_start = Snapshot(image, placed_pixels, edges, pixels_placed)
    /\ \E c \in Cells : placed_pixels[c] /\ \A i \in 1..Len(edges) :
                                              <<edges[i].y, edges[i].x>> # c

\* ------------------------------------------------------------ edge ranges
\* One step's split of edgecount edges over a pool of workers, range by
\* range.
SplitInit ==
    /\ RunIdle
    /\ bitmap = None
    /\ geometry = None
    /\ group = None
    /\ getopt = None
    /\ seeding = None
    /\ call = None
    /\ \E n \in 0..MaxEdges, w \in 2..MaxPool :
         split = [edgecount |-> n, workers |-> w, ranges |-> <<>>]

\* The next worker's range is sent.
SplitSend ==
    /\ split # None
    /\ Len(split.ranges) < split.workers
    /\ split' = [split EXCEPT !.ranges =
                   Append(@, EdgeRange(Len(split.ranges), split.workers,
                                       split.edgecount))]
    /\ UNCHANGED splitRest

SplitNext == SplitSend
SplitSpec == SplitInit /\ [][SplitNext]_vars

\* The indices a range covers.
Indices(r) == {i \in 0..(MaxEdges + 1) : r.lo <= i /\ i < r.hi}
\* floor(n / w), by its defining inequality.
Floor(n, w) == CHOOSE q \in 0..n : q * w <= n /\ n < (q + 1) * w
\* C35: the ranges sent to the workers are [i*floor(n/w), (i+1)*floor(n/w))
\* for every worker but the last and [(w-1)*floor(n/w), n) for the last;
\* they are pairwise disjoint and together cover [0, n) exactly.
C35_RangesPartition ==
    split # None =>
      LET n == split.edgecount
          w == split.workers
          sent == split.ranges
      IN /\ \A i \in 1..Len(sent) :
              /\ sent[i].lo = (i - 1) * Floor(n, w)
              /\ sent[i].hi = IF i = w THEN n ELSE i * Floor(n, w)
         /\ \A i, j \in 1..Len(sent) :
              i # j => Indices(sent[i]) \cap Indices(sent[j]) = {}
         /\ Len(sent) = w =>
              UNION {Indices(sent[i]) : i \in 1..w} = {i \in 0..(MaxEdges + 1) : i < n}
\* Every range of a split with a remainder has been sent.
C35_Witness ==
    /\ split # None
    /\ Len(split.ranges) = split.workers
    /\ split.workers = 3
    /\ split.edgecount = 8

\* ------------------------------------------------------------ placement
\* A turn of the placement loop that places its candidate.
Placement == gpc = "placing" /\ gpc' = "place_count"
\* The cells whose mask bit this step sets.
NewlyPlaced == {c \in Cells : ~placed_pixels[c] /\ placed_pixels'[c]}
\* The cell at frontier pixel p plus the k-th offset of the shuffled order.
Target(p, k) == <<p.y + offsets[k].dy, p.x + offsets[k].dx>>
OpenTarget(p, k) == Target(p, k) \in Cells /\ ~placed_pixels[Target(p, k)]
C36_Step ==
    Placement =>
      LET p == best_places[idx].value.pixel
      IN /\ best_places[idx].some
         /\ <<p.y, p.x>> \in Cells
         /\ placed_pixels[<<p.y, p.x>>]
         /\ \E k \in 1..Len(offsets) :
              /\ OpenTarget(p, k)
              /\ \A j \in 1..(k - 1) : ~OpenTarget(p, j)
              /\ NewlyPlaced = {Target(p, k)}
              /\ edges' = Append(edges, Pixel(p.x + offsets[k].dx, p.y + offsets[k].dy))
C36_Corner ==
    /\ dimx = 2
    /\ dimy = 2
    /\ cfg.offsets = EastSouth
    /\ placed_pixels[<<0, 0>>]
    /\ ~placed_pixels[<<0, 1>>]
    /\ ~placed_pixels[<<1, 0>>]
    => <<1, 1>> \notin NewlyPlaced
\* C36: a placement of the main loop sets exactly the cell at p + o, p the
\* placed frontier pixel found for the candidate and o the first offset of
\* the shuffled order whose target is in bounds and unplaced; on 2x2 under
\* offsets (1,0), (0,1) with (0,0) placed, (1,1) is not placed while
\* neither (0,1) nor (1,0) is.
C36_PlacedBesideFrontier == [][C36_Step /\ C36_Corner]_vars
\* A placement at the second offset of the order: the first one's target
\* was out of bounds or placed.
C36_Witness ==
    /\ gpc = "place_count"
    /\ Len(offsets) = 2
    /\ LET p == best_places[idx].value.pixel
       IN /\ edges[Len(edges)] = Pixel(p.x + offsets[2].dx, p.y + offsets[2].dy)
          /\ <<p.y + offsets[1].dy, p.x + offsets[1].dx>> \in Cells
          /\ placed_pixels[<<p.y + offsets[1].dy, p.x + offsets[1].dx>>]
          /\ image[<<p.y + offsets[2].dy, p.x + offsets[2].dx>>] = colors[idx]

\* ------------------------------------------------------------ placement miss
\* The placement loop is at a candidate whose frontier pixel has no
\* in-bounds unplaced neighbour.
Miss ==
    /\ gpc = "placing"
    /\ idx <= colorcount
    /\ best_places[idx].some
    /\ \A k \in 1..Len(offsets) : ~OpenTarget(best_places[idx].value.pixel, k)
\* The generator takes a step.
GenSteps == gpc' # gpc \/ idx' # idx
C37_Step ==
    Miss => /\ UNCHANGED <<lockedVars, pixels_placed>>
            /\ GenSteps => /\ gpc' = "placing"
                           /\ idx' = idx + 1
                           /\ UNCHANGED <<finished, gen_finished, best_places>>
\* C37: a placement attempt at a frontier pixel without an in-bounds
\* unplaced neighbour changes neither image, mask, frontier nor
\* pixels_placed; the generator goes on to the next candidate of the batch
\* and does not stop.
C37_MissTolerated == [][C37_Step]_vars /\ [](Miss => gpc # "panicked")
\* The first candidate of a batch of two has missed, nothing has changed
\* since the step began, and the loop is at the second candidate.
C37_Witness ==
    /\ gpc = "placing"
    /\ idx = 2
    /\ colorcount = 2
    /\ best_places[1].some
    /\ best_places[2].some
    /\ ~finished
    /\ step_start = Snapshot(image, placed_pixels, edges, pixels_placed)
    /\ \A k \in 1..Len(offsets) : ~OpenTarget(best_places[1].value.pixel, k)

\* ------------------------------------------------------------ revalidation
\* The placement batch ends.
BatchEnds == gpc = "placing" /\ idx > colorcount /\ gpc' # "placing"
\* A frontier entry that is marked placed and has an in-bounds unplaced
\* neighbour under the configured offsets.
StillOpen(pixel) ==
    /\ placed_pixels[<<pixel.y, pixel.x>>]
    /\ \E k \in 1..Len(cfg.offsets) :
         LET t == <<pixel.y + cfg.offsets[k].dy, pixel.x + cfg.offsets[k].dx>>
         IN t \in Cells /\ ~placed_pixels[t]
C38_Step ==
    BatchEnds =>
      /\ UNCHANGED <<image, placed_pixels>>
      /\ IF gen_finished' /\ ~gen_finished
         THEN UNCHANGED edges
         ELSE LET kept == {i \in 1..Len(edges) : StillOpen(edges[i])}
              IN /\ Len(edges') = Cardinality(kept)
                 /\ \A i \in kept :
                      edges'[Cardinality({j \in kept : j <= i})] = edges[i]
\* C38: the end of a placement batch that does not store finished leaves in
\* the frontier exactly the entries that are marked placed and have an
\* in-bounds unplaced neighbour, in their previous order, and changes
\* neither the image nor the mask.
C38_Revalidation == [][C38_Step]_vars
\* A revalidation has removed an entry and kept two.
C38_Witness ==
    /\ gpc = "loop"
    /\ revalidated
    /\ ~finished
    /\ Len(edges) = 2
    /\ edges[1] # edges[2]
    /\ pixels_placed = 3

\* ------------------------------------------------------------ the cap, at equality
\* The placement loop begins: nothing of the batch is placed yet.
BatchBegins == gpc = "placing" /\ idx = 1 /\ step_start # None
\* C39: under max_fitness = m a candidate whose least fitness over the
\* frontier is exactly m is not rejected: the placement loop holds a best
\* for it.
C39_AtCapNotRejected ==
    maxfitness.some /\ BatchBegins =>
      \A j \in 1..colorcount :
        LET least == ScanAll(image, edges, colors)[j]
        IN least.some /\ least.value.fitness = maxfitness.value
           => best_places[j].some

\* ------------------------------------------------------------ the counter and the mask
\* BitMap::count_ones on the mask of the run: the bits of every row from
\* column 0 up to the width.
RECURSIVE CountRow(_, _, _)
CountRow(mask, row, col) ==
    IF col >= dimx THEN 0
    ELSE (IF mask[<<row, col>>] THEN 1 ELSE 0) + CountRow(mask, row, col + 1)
RECURSIVE CountRows(_, _)
CountRows(mask, row) ==
    IF row >= dimy THEN 0
    ELSE CountRow(mask, row, 0) + CountRows(mask, row + 1)
count_ones(mask) == CountRows(mask, 0)
\* C40: whenever no writer holds the lock, pixels_placed is the number of
\* 1 bits of the placed mask.
C40_CounterIsPopcount ==
    lock_writer = {} => pixels_placed = count_ones(placed_pixels)
\* Mid-run, with the seed and two later pixels counted and the lock free.
C40_Witness ==
    /\ lock_writer = {}
    /\ gpc = "arriveA"
    /\ steps > 0
    /\ seeds = 1
    /\ pixels_placed = 3
    /\ Len(edges) = 1
    /\ ~finished

\* ------------------------------------------------------------ barrier order
\* Where the supervisor is in its iteration.
SupPhase(pc) ==
    IF pc \in {"arriveOuterA", "blockedOuterA"} THEN "outerA"
    ELSE IF pc \in {"arriveInnerA", "blockedInnerA"} THEN "innerA"
    ELSE IF pc = "check" THEN "check"
    ELSE IF pc \in {"arriveInnerB", "blockedInnerB"} THEN "innerB"
    ELSE IF pc \in {"arriveOuterB", "blockedOuterB"} THEN "outerB"
    ELSE "left"
\* Where a progressor is in its iteration.
ProgPhase(pc) ==
    IF pc \in {"arriveA", "blockedA"} THEN "innerA"
    ELSE IF pc \in {"afterA", "reading", "checkFin"} THEN "read"
    ELSE IF pc \in {"arriveB", "blockedB"} THEN "innerB"
    ELSE IF pc = "afterB" THEN "afterB"
    ELSE "left"
SupOrder ==
    {<<"outerA", "innerA">>, <<"innerA", "check">>, <<"check", "innerB">>,
     <<"innerB", "outerB">>, <<"outerB", "outerA">>, <<"check", "left">>}
ProgOrder ==
    {<<"innerA", "read">>, <<"read", "innerB">>, <<"innerB", "afterB">>,
     <<"innerB", "innerA">>, <<"afterB", "innerA">>, <<"read", "left">>}
\* The generator has arrived at rendezvous A of this iteration and has not
\* passed rendezvous B.
GenBetweenAAndB ==
    gpc \in {"afterA", "scan", "send_edges", "send_colors", "arriveB", "blockedB",
             "join", "done", "panicked"}
GenPassesB == gpc \in {"arriveB", "blockedB"} /\ gpc' = "afterB"
ProgPastInnerB(pc) == pc \in {"afterB", "arriveA", "blockedA"}
C34_Step ==
    ~SingleMode =>
      /\ SupPhase(spc') # SupPhase(spc) => <<SupPhase(spc), SupPhase(spc')>> \in SupOrder
      /\ \A j \in Progs :
           ProgPhase(ppc'[j]) # ProgPhase(ppc[j])
           => <<ProgPhase(ppc[j]), ProgPhase(ppc'[j])>> \in ProgOrder
      /\ GenPassesB => \A j \in Progs : ProgPastInnerB(ppc'[j])
C34_ReadAfterA ==
    ~SingleMode =>
      \A j \in Progs : ProgPhase(ppc[j]) = "read" => GenBetweenAAndB
\* C34: under the supervisor of several progressors, the supervisor goes
\* outer A, inner A, test of finished, inner B, outer B and every progressor
\* inner A, read, inner B; no progressor is in its read part unless the
\* generator has arrived at rendezvous A, and the generator passes rendezvous
\* B only when every progressor has been through inner B.
C34_BarrierOrder == [][C34_Step]_vars /\ []C34_ReadAfterA
\* The generator has just passed rendezvous B of a run with two progressors,
\* both of which are through their inner B.
C34_Witness ==
    /\ ~SingleMode
    /\ gpc = "afterB"
    /\ SupPhase(spc) = "outerA"
    /\ \A j \in Progs : ProgPastInnerB(ppc[j])
    /\ \E j \in Progs : final_outputs[j] > 0 \/ step_count[j] > 0 \/ quit_requested[j]

\* ============================================================ colour options
\* color::opts()
color_opts ==
    <<Opt_short_long("N", <<"n", "o", "r", "m", "a", "l">>, "No"),
      Opt_long(<<"h", "u", "e", "s">>, "No"),
      Opt_short_long("n", <<"n", "e", "w", "v", "e", "c", "t", "o", "r", "s", "e", "t">>, "No"),
      Opt_short_long("v", <<"v", "e", "c", "t", "o", "r">>, "Yes"),
      Opt_short_long("b", <<"b", "a", "s", "e">>, "Yes"),
      Opt_short_long("t", <<"t", "y", "p", "e">>, "Yes")>>

\* A channel value: the integer part and the fraction digits without their
\* trailing zeros.
Channel(int, frac) == [int |-> int, frac |-> frac]
Zero == Channel(0, <<>>)
One == Channel(1, <<>>)
from_3(r, g, b) == <<r, g, b, Zero>>
Color_default == <<Zero, Zero, Zero, Zero>>

RECURSIVE StripZeros(_)
StripZeros(digits) ==
    IF digits # <<>> /\ digits[Len(digits)] = "0"
    THEN StripZeros(SubSeq(digits, 1, Len(digits) - 1))
    ELSE digits
AllDigits(t) == \A i \in 1..Len(t) : IsDigit(t[i])
\* str::parse::<Channel>() on text made of digits and an optional point
\* (no sign, no exponent): the value, or None when it is not a number.
ParseFloat(t) ==
    LET dot == find(t, ".")
        int == IF dot.some THEN SubSeq(t, 1, dot.value) ELSE t
        frac == IF dot.some THEN SubSeq(t, dot.value + 2, Len(t)) ELSE <<>>
    IN IF AllDigits(int) /\ AllDigits(frac) /\ (int # <<>> \/ frac # <<>>)
       THEN Some(Channel(Decimal(int), StripZeros(frac)))
       ELSE None

\* str::split(',')
RECURSIVE Split(_)
Split(t) ==
    LET comma == find(t, ",")
    IN IF comma.some
       THEN <<SubSeq(t, 1, comma.value)>> \o Split(SubSeq(t, comma.value + 2, Len(t)))
       ELSE <<t>>

\* parse_color from piece k on: the pieces zipped with the four channels,
\* the first piece that is no number is the error.
RECURSIVE ParseChannels(_, _, _)
ParseChannels(pieces, color, k) ==
    IF k > Len(pieces) \/ k > Len(color) THEN Some(color)
    ELSE LET parsed == ParseFloat(pieces[k])
         IN IF parsed.some
            THEN ParseChannels(pieces, [color EXCEPT ![k] = parsed.value], k + 1)
            ELSE None
parse_color(t) == ParseChannels(Split(t), Color_default, 1)

VectorSet(start, vectors, kind) ==
    [start |-> start, vectors |-> vectors, chance |-> 1, kind |-> kind]
BASIC_COLOR ==
    VectorSet(from_3(Zero, Zero, Zero),
              <<from_3(One, Zero, Zero), from_3(Zero, One, Zero), from_3(Zero, Zero, One)>>,
              "Full")
FULL_INTENSITY_HUES ==
    <<VectorSet(from_3(One, Zero, Zero), <<from_3(Zero, One, Zero)>>, "Full"),
      VectorSet(from_3(Zero, One, Zero), <<from_3(One, Zero, Zero)>>, "Full"),
      VectorSet(from_3(Zero, One, Zero), <<from_3(Zero, Zero, One)>>, "Full"),
      VectorSet(from_3(Zero, Zero, One), <<from_3(Zero, One, Zero)>>, "Full"),
      VectorSet(from_3(Zero, Zero, One), <<from_3(One, Zero, Zero)>>, "Full"),
      VectorSet(from_3(One, Zero, Zero), <<from_3(Zero, Zero, One)>>, "Full")>>

\* The argument of -t/--type
ParseKind(t) ==
    IF t \in {<<"f", "u", "l", "l">>, <<"f">>} THEN Some("Full")
    ELSE IF t \in {<<"s", "u", "m", "_", "o", "n", "e">>, <<"s", "u", "m", "o", "n", "e">>, <<"o", "n", "e">>, <<"o">>} THEN Some("SumOne")
    ELSE IF t \in {<<"t", "r", "i", "a", "n", "g", "u", "l", "a", "r">>, <<"t", "r", "i">>, <<"t">>} THEN Some("Triangular")
    ELSE None

\* The state of the loop of color::handle_opts
ColorSettings == [normal |-> FALSE, vectorsets |-> None, panicked |-> FALSE]
\* vectorsets with its last vector set replaced
WithLast(settings, vectorset) ==
    LET sets == settings.vectorsets.value
    IN [settings EXCEPT !.vectorsets = Some([sets EXCEPT ![Len(sets)] = vectorset])]
Last(settings) == settings.vectorsets.value[Len(settings.vectorsets.value)]
Started(settings, vectorset) ==
    [settings EXCEPT !.vectorsets = Some(<<vectorset>>)]

\* A -v that starts a vector set of its own every time.
ColorItem_VectorStartsSet(settings, item) ==
    IF settings.panicked \/ item.kind # "Opt" THEN settings
    ELSE IF ~item.arg.some /\ item.opt.long = Some(<<"n", "o", "r", "m", "a", "l">>)
    THEN [settings EXCEPT !.normal = TRUE]
    ELSE IF ~item.arg.some /\ item.opt.long = Some(<<"h", "u", "e", "s">>)
    THEN [settings EXCEPT !.vectorsets =
            IF @.some THEN Some(@.value \o FULL_INTENSITY_HUES)
            ELSE Some(FULL_INTENSITY_HUES)]
    ELSE IF ~item.arg.some /\ item.opt.long = Some(<<"n", "e", "w", "v", "e", "c", "t", "o", "r", "s", "e", "t">>)
    THEN [settings EXCEPT !.vectorsets =
            IF @.some THEN Some(Append(@.value, VectorSet(Color_default, <<>>, "Full")))
            ELSE Some(<<VectorSet(Color_default, <<>>, "Full")>>)]
    ELSE IF item.arg.some /\ item.opt.long = Some(<<"v", "e", "c", "t", "o", "r">>)
    THEN LET vector == parse_color(item.arg.value)
         IN IF ~vector.some THEN Panic(settings)
            ELSE [settings EXCEPT !.vectorsets =
                    IF @.some
                    THEN Some(Append(@.value, VectorSet(Color_default, <<vector.value>>, "Full")))
                    ELSE Some(<<VectorSet(Color_default, <<vector.value>>, "Full")>>)]
    ELSE IF item.arg.some /\ item.opt.long = Some(<<"b", "a", "s", "e">>)
    THEN LET start == parse_color(item.arg.value)
         IN IF ~start.some THEN Panic(settings)
            ELSE IF ~settings.vectorsets.some
            THEN Started(settings, VectorSet(start.value, <<>>, "Full"))
            ELSE WithLast(settings, [Last(settings) EXCEPT !.start = start.value])
    ELSE IF item.arg.some /\ item.opt.long = Some(<<"t", "y", "p", "e">>)
    THEN LET kind == ParseKind(item.arg.value)
         IN IF ~kind.some THEN Panic(settings)
            ELSE IF ~settings.vectorsets.some
            THEN Started(settings, VectorSet(Color_default, <<>>, kind.value))
            ELSE WithLast(settings, [Last(settings) EXCEPT !.kind = kind.value])
    ELSE settings

\* One turn of `for opt in opts`; opt.is_long(name) is read as: the
\* option's long name is `name`.
ColorItem(settings, item) ==
    IF settings.panicked \/ item.kind # "Opt" THEN settings
    ELSE IF ~item.arg.some /\ item.opt.long = Some(<<"n", "o", "r", "m", "a", "l">>)
    THEN [settings EXCEPT !.normal = TRUE]
    ELSE IF ~item.arg.some /\ item.opt.long = Some(<<"h", "u", "e", "s">>)
    THEN [settings EXCEPT !.vectorsets =
            IF @.some THEN Some(@.value \o FULL_INTENSITY_HUES)
            ELSE Some(FULL_INTENSITY_HUES)]
    ELSE IF ~item.arg.some /\ item.opt.long = Some(<<"n", "e", "w", "v", "e", "c", "t", "o", "r", "s", "e", "t">>)
    THEN [settings EXCEPT !.vectorsets =
            IF @.some THEN Some(Append(@.value, VectorSet(Color_default, <<>>, "Full")))
            ELSE Some(<<VectorSet(Color_default, <<>>, "Full")>>)]
    ELSE IF item.arg.some /\ item.opt.long = Some(<<"v", "e", "c", "t", "o", "r">>)
    THEN LET vector == parse_color(item.arg.value)
         IN IF ~vector.some THEN Panic(settings)
            ELSE IF ~settings.vectorsets.some
            THEN Started(settings, VectorSet(Color_default, <<vector.value>>, "Full"))
            ELSE WithLast(settings, [Last(settings) EXCEPT
                                       !.vectors = Append(@, vector.value)])
    ELSE IF item.arg.some /\ item.opt.long = Some(<<"b", "a", "s", "e">>)
    THEN LET start == parse_color(item.arg.value)
         IN IF ~start.some THEN Panic(settings)
            ELSE IF ~settings.vectorsets.some
            THEN Started(settings, VectorSet(start.value, <<>>, "Full"))
            ELSE WithLast(settings, [Last(settings) EXCEPT !.start = start.value])
    ELSE IF item.arg.some /\ item.opt.long = Some(<<"t", "y", "p", "e">>)
    THEN LET kind == ParseKind(item.arg.value)
         IN IF ~kind.some THEN Panic(settings)
            ELSE IF ~settings.vectorsets.some
            THEN Started(settings, VectorSet(Color_default, <<>>, kind.value))
            ELSE WithLast(settings, [Last(settings) EXCEPT !.kind = kind.value])
    ELSE settings
RECURSIVE ColorItems(_, _)
ColorItems(settings, items) ==
    IF items = <<>> THEN settings
    ELSE ColorItems(ColorItem(settings, Head(items)), Tail(items))

ColorPanic == [kind |-> "panic"]
\* VectorSetGroup::new on the vector sets themselves
Group(vectorsets) ==
    LET made == VectorSetGroup_new([i \in 1..Len(vectorsets) |-> vectorsets[i].chance])
    IN IF made.some
       THEN [kind |-> "VectorSetGroup", vectorsets |-> vectorsets,
             total_chance |-> made.value.total_chance]
       ELSE ColorPanic
\* color::handle_opts: the colour generator built, or a panic on the way
color_handle_opts(items) ==
    LET settings == ColorItems(ColorSettings, items)
    IN IF settings.panicked THEN ColorPanic
       ELSE IF ~settings.vectorsets.some
       THEN [kind |-> "VectorSet", vectorset |-> BASIC_COLOR]
       ELSE IF ~settings.normal THEN Group(settings.vectorsets.value)
       ELSE ColorPanic

\* Parameters for the colour options: the options in their spellings,
\* colours as separate arguments, a colour that is no number, a cluster.
ColorParamChoices ==
    {<<"-", "N">>,
     <<"-", "-", "n", "o", "r", "m", "a", "l">>,
     <<"-", "n">>,
     <<"-", "-", "n", "e", "w", "v", "e", "c", "t", "o", "r", "s", "e", "t">>,
     <<"-", "v", "1", ",", "0", ",", "0">>,
     <<"-", "v", "0", ",", "1", ",", "0">>,
     <<"-", "v">>,
     <<"1", ".", "0", ",", "0", ",", "0", ".", "0">>,
     <<"0", ",", "1", ".", "0", "0", "0", ",", "0", "0", ".", "0">>,
     <<"-", "-", "v", "e", "c", "t", "o", "r", "=", "1", ".", "0", ",", "0", ",", "0", ".", "0">>,
     <<"-", "b", "0", ",", "0", ",", "0">>,
     <<"-", "b", "0", ".", "5">>,
     <<"-", "-", "h", "u", "e", "s">>,
     <<"-", "t", "t">>,
     <<"-", "v", "x">>,
     <<"-", "n", "v", "0", ",", "0", ",", "1">>}

ColorsInit ==
    /\ RunIdle
    /\ seeding = None
    /\ split = None
    /\ bitmap = None
    /\ geometry = None
    /\ group = None
    /\ \E args \in ArgLists(ColorParamChoices, MaxColorParams) :
         /\ getopt = Getopt_parse(color_opts, args)
         /\ call = [params |-> args, collected |-> <<>>, done |-> FALSE, generator |-> None]

\* collect::<Result<Vec<_>, _>>().unwrap() before color::handle_opts
ColorCollect ==
    /\ ~call.done
    /\ LET r == next(getopt)
       IN /\ getopt' = r.self
          /\ call' = IF ~r.item.some THEN [call EXCEPT !.done = TRUE]
                     ELSE IF IsErr(r.item.value)
                     THEN [call EXCEPT !.done = TRUE, !.generator = Some(ColorPanic)]
                     ELSE [call EXCEPT !.collected = Append(@, r.item.value)]
    /\ UNCHANGED colorRest

ColorHandleOpts ==
    /\ call.done
    /\ call.generator = None
    /\ call' = [call EXCEPT !.generator = Some(color_handle_opts(call.collected))]
    /\ UNCHANGED <<getopt, colorRest>>

ColorsNext == ColorCollect \/ ColorHandleOpts
ColorsSpec == ColorsInit /\ [][ColorsNext]_vars

\* Items of the kinds the colour options produce.
IsNormalItem(item) ==
    item.kind = "Opt" /\ item.opt.short = Some("N") /\ ~item.arg.some
IsNewSetItem(item) ==
    item.kind = "Opt" /\ item.opt.short = Some("n") /\ ~item.arg.some
IsVectorItem(item) ==
    item.kind = "Opt" /\ item.opt.short = Some("v") /\ item.arg.some
\* The colour an argument spells: up to four numbers between commas, the
\* channels left out are 0.
Spells(t, color) ==
    LET pieces == Split(t)
    IN \A k \in 1..Len(color) :
         IF k <= Len(pieces) THEN ParseFloat(pieces[k]) = Some(color[k])
         ELSE color[k] = Zero
\* The vectors of the -v items, cut at every -n.
RECURSIVE Segments(_)
Segments(items) ==
    IF items = <<>> THEN <<(<<>>)>>
    ELSE LET rest == Segments(Tail(items))
         IN IF IsNewSetItem(Head(items)) THEN <<(<<>>)>> \o rest
            ELSE <<(<<Head(items).arg.value>> \o rest[1])>> \o Tail(rest)
\* Every item that next yields from a parser on, errors included.
RECURSIVE CollectAll(_)
CollectAll(self) ==
    LET r == next(self)
    IN IF ~r.item.some THEN <<>> ELSE <<r.item.value>> \o CollectAll(r.self)
ColorResult == call.generator.value
ColorBuilt == call # None /\ call.done /\ call.generator # None /\ ColorResult # ColorPanic
C31_Basic ==
    (\A i \in 1..Len(call.collected) : IsNormalItem(call.collected[i]))
    => ColorResult = [kind |-> "VectorSet", vectorset |-> BASIC_COLOR]
C31_Vectors ==
    LET items == call.collected
        runs == IF IsNewSetItem(Head(items)) THEN Tail(Segments(items)) ELSE Segments(items)
    IN (/\ items # <<>>
        /\ \A i \in 1..Len(items) : IsNewSetItem(items[i]) \/ IsVectorItem(items[i]))
       => /\ ColorResult.kind = "VectorSetGroup"
          /\ ColorResult.total_chance = Len(runs)
          /\ Len(ColorResult.vectorsets) = Len(runs)
          /\ \A i \in 1..Len(runs) :
               LET vectorset == ColorResult.vectorsets[i]
               IN /\ vectorset.start = Color_default
                  /\ vectorset.kind = "Full"
                  /\ vectorset.chance = 1
                  /\ Len(vectorset.vectors) = Len(runs[i])
                  /\ \A k \in 1..Len(runs[i]) : Spells(runs[i][k], vectorset.vectors[k])
C31_LeadingNewSet ==
    LET items == call.collected
    IN (/\ Len(items) >= 2
        /\ IsNewSetItem(items[1])
        /\ call.params[1] \in {<<"-", "n">>, <<"-", "-", "n", "e", "w", "v", "e", "c", "t", "o", "r", "s", "e", "t">>}
        /\ \A i \in 2..Len(items) : IsVectorItem(items[i]))
       => ColorResult =
            color_handle_opts(CollectAll(Getopt_parse(color_opts, Tail(call.params))))
\* C31: with no colour option or only -N the colour generator is the
\* BASIC_COLOR vector set; with -n and -v options only, it is the group of
\* one Full vector set of zero start per run of -v options cut at the -n
\* options, a leading -n starting none of its own, each with the vectors
\* its -v options spell, in order; so a -n before -v options gives what
\* the -v options give alone.
C31_ColourOptions ==
    ColorBuilt => C31_Basic /\ C31_Vectors /\ C31_LeadingNewSet
\* -n -v1,0,0 -v0,1,0 has built the group of the one vector set with the
\* red and the green vector.
C31_Witness ==
    /\ call # None
    /\ call.done
    /\ call.params = <<<<"-", "n">>, <<"-", "v", "1", ",", "0", ",", "0">>, <<"-", "v", "0", ",", "1", ",", "0">>>>
    /\ call.generator =
         Some([kind |-> "VectorSetGroup",
               vectorsets |-> <<VectorSet(from_3(Zero, Zero, Zero),
                                          <<from_3(One, Zero, Zero), from_3(Zero, One, Zero)>>,
                                          "Full")>>,
               total_chance |-> 1])

====
